---- MODULE Spec2Model ----
(***************************************************************************)
(* A model of the Clam CFG builder (src/lib/Clam/CfgBuilder.cc): the       *)
(* literal factory, comparison normalisation, the PHI visitor, the         *)
(* instruction visitor, the edge translation, the function declaration,    *)
(* the exit of the graph and the builder manager.                          *)
(***************************************************************************)
EXTENDS Integers, Sequences, FiniteSets, TLC

(***************************************************************************)
(* Bounds.                                                                 *)
(***************************************************************************)
\* The machine word the code fixes at 64 bits (isSignedBigNum), scaled down
\* so that every bit pattern of every modelled width is enumerated.
WordBits == 3
\* How often getLit is called on one value.
MaxCalls == 2
\* How often a comparison is normalised.
MaxNorm == 2

\* Integer widths range over 1 .. MaxWidth: i1, widths below the word, the
\* word itself and two widths above it.
MaxWidth == WordBits + 2

RECURSIVE Pow2(_)
Pow2(n) == IF n = 0 THEN 1 ELSE 2 * Pow2(n - 1)

\* e evaluated once and given to F: the sequencing of two statements, the
\* second of which works on the state the first has left.
Bind(e, F(_)) == CHOOSE r \in {F(x) : x \in {e}} : TRUE

(***************************************************************************)
(* Source values (llvm::Value).  kind: "cint" a ConstantInt, "cexpr" a     *)
(* ConstantExpr, "null" a ConstantPointerNull, "var" any other value       *)
(* (argument, instruction, global).  tyk is the kind of its type, w the    *)
(* width of an integer type, bits the two's complement pattern of a        *)
(* ConstantInt (an APInt of width w).                                      *)
(***************************************************************************)
MkValue(kind, tyk, w, bits, name) ==
  [kind |-> kind, tyk |-> tyk, w |-> w, bits |-> bits, name |-> name]

ConstInt(w, bits) == MkValue("cint", "int", w, bits, "")

ConstInts ==
  UNION {{ConstInt(w, b) : b \in 0 .. (Pow2(w) - 1)} : w \in 1 .. MaxWidth}

OtherValues ==
  { MkValue("var", "int", 1, 0, "c"),
    MkValue("var", "int", WordBits - 1, 0, "x"),
    MkValue("var", "int", WordBits + 1, 0, "wide"),
    MkValue("var", "ptr", 0, 0, "p"),
    MkValue("var", "other", 0, 0, "f"),
    MkValue("cexpr", "int", 1, 0, "ce1"),
    MkValue("cexpr", "int", WordBits - 1, 0, "cei"),
    MkValue("cexpr", "ptr", 0, 0, "cep"),
    MkValue("cexpr", "other", 0, 0, "cef"),
    MkValue("null", "ptr", 0, 0, "") }

Values == ConstInts \cup OtherValues

\* The second value of a translation: any non-integer-constant value, the
\* most negative constant of the widest type, and the first constant above
\* the word's range.
FewValues ==
  OtherValues \cup { ConstInt(MaxWidth, Pow2(MaxWidth - 1)),
                     ConstInt(WordBits + 1, Pow2(WordBits - 1)) }

(***************************************************************************)
(* Types.                                                                  *)
(***************************************************************************)
isBool(v) == v.tyk = "int" /\ v.w = 1

isInteger(v) == v.tyk = "int" /\ ~isBool(v)

isPointerTy(v) == v.tyk = "ptr"

(***************************************************************************)
(* APInt arithmetic.                                                       *)
(***************************************************************************)
\* The signed value of the w-bit pattern bits.
SignedVal(w, bits) == IF bits >= Pow2(w - 1) THEN bits - Pow2(w) ELSE bits

\* APInt(b, val, isSigned = true): the word-sized signed val sign-extended
\* to b bits.
APIntSigned(b, val) == IF val < 0 THEN Pow2(b) + val ELSE val

SignedMaxWord == Pow2(WordBits - 1) - 1

SignedMinWord == 0 - Pow2(WordBits - 1)

sgt(w, a, b) == SignedVal(w, a) > SignedVal(w, b)

slt(w, a, b) == SignedVal(w, a) < SignedVal(w, b)

\* A mutant of isSignedBigNum: the bounds are compared unsigned.
isSignedBigNumUnsigned(w, bits) ==
  IF w <= WordBits THEN FALSE
  ELSE bits > APIntSigned(w, SignedMaxWord) \/ bits < APIntSigned(w, SignedMinWord)

isSignedBigNum(w, bits) ==
  IF w <= WordBits THEN FALSE
  ELSE LET max == APIntSigned(w, SignedMaxWord)
           min == APIntSigned(w, SignedMinWord)
       IN  sgt(w, bits, max) \/ slt(w, bits, min)

\* APInt::abs of a negative value: the two's complement negation, which
\* wraps for the minimum value.
APIntAbs(w, bits) ==
  IF bits >= Pow2(w - 1) THEN (Pow2(w) - bits) % Pow2(w) ELSE bits

\* toZNumber: <<the number, is_bignum>>.  The magnitude is imported from the
\* raw words of abs(v) as an unsigned number and negated for a negative v.
toZNumber(w, bits, bignums) ==
  LET is_bignum == IF ~bignums THEN isSignedBigNum(w, bits) ELSE FALSE
      neg == bits >= Pow2(w - 1)
      res == APIntAbs(w, bits)
  IN  <<IF neg THEN 0 - res ELSE res, is_bignum>>

getIntConstant(v, bignums) ==
  IF v.w = 1 THEN <<v.bits, FALSE>> ELSE toZNumber(v.w, v.bits, bignums)

(***************************************************************************)
(* Literals (crabLit).  cls "none" stands for the null reference.          *)
(***************************************************************************)
MkLit(cls, isVar, var, num) ==
  [cls |-> cls, isVar |-> isVar, var |-> var, num |-> num]

NoLit == MkLit("none", FALSE, "", 0)

BoolCst(b) == MkLit("bool", FALSE, "", IF b THEN 1 ELSE 0)

BoolVarLit(name) == MkLit("bool", TRUE, name, 0)

IntCst(n) == MkLit("int", FALSE, "", n)

IntVarLit(name) == MkLit("int", TRUE, name, 0)

PtrNull == MkLit("ptr", FALSE, "", 0)

PtrVarLit(name) == MkLit("ptr", TRUE, name, 0)

getBoolLit(v, bignums) ==
  IF isBool(v)
  THEN IF v.kind = "cint"
       THEN LET n == getIntConstant(v, bignums)
            IN  IF ~n[2] THEN BoolCst(n[1] > 0) ELSE NoLit
       ELSE IF v.kind # "cexpr" THEN BoolVarLit(v.name) ELSE NoLit
  ELSE NoLit

getPtrLit(v) ==
  IF v.kind = "null" THEN PtrNull
  ELSE IF isPointerTy(v) /\ v.kind # "cexpr" THEN PtrVarLit(v.name)
  ELSE NoLit

getIntLit(v, bignums) ==
  IF isInteger(v)
  THEN IF v.kind = "cint"
       THEN LET n == getIntConstant(v, bignums)
            IN  IF ~n[2] THEN IntCst(n[1]) ELSE NoLit
       ELSE IF v.kind # "cexpr" THEN IntVarLit(v.name) ELSE NoLit
  ELSE NoLit

\* A mutant of NewLit: the pointer case is missing.
NewLitNoPtr(v, bignums) ==
  IF isBool(v) THEN getBoolLit(v, bignums)
  ELSE IF isInteger(v) THEN getIntLit(v, bignums)
  ELSE NoLit

\* The part of getLit after a cache miss: the literal built from v's type.
NewLit(v, bignums) ==
  IF isBool(v) THEN getBoolLit(v, bignums)
  ELSE IF isInteger(v) THEN getIntLit(v, bignums)
  ELSE IF isPointerTy(v) THEN getPtrLit(v)
  ELSE NoLit

EmptyCache == [u \in {} |-> NoLit]

\* A mutant of CacheInsert: the insertion drops the other entries.
CacheInsertOnly(cache, v, lit) == [u \in {v} |-> lit]

\* m_lit_cache.insert(binding_t(&v, ref)): an existing entry is kept.
CacheInsert(cache, v, lit) ==
  IF v \in DOMAIN cache THEN cache
  ELSE [u \in DOMAIN cache \cup {v} |-> IF u = v THEN lit ELSE cache[u]]

\* getLit as a function of the cache: <<the literal returned, the cache>>.
getLit(cache, v, bignums) ==
  IF v \in DOMAIN cache THEN <<cache[v], cache>>
  ELSE Bind(NewLit(v, bignums), LAMBDA lit :
         IF lit # NoLit THEN <<lit, CacheInsert(cache, v, lit)>>
         ELSE <<NoLit, cache>>)

(***************************************************************************)
(* Comparisons (llvm::CmpInst): a predicate and two operands.              *)
(***************************************************************************)
ICmpPredicates ==
  { "ICMP_EQ", "ICMP_NE", "ICMP_UGT", "ICMP_UGE", "ICMP_ULT", "ICMP_ULE",
    "ICMP_SGT", "ICMP_SGE", "ICMP_SLT", "ICMP_SLE" }

MkCmp(pred, op0, op1) == [pred |-> pred, op0 |-> op0, op1 |-> op1]

\* CmpInst::getSwappedPredicate.
getSwappedPredicate(pred) ==
  CASE pred = "ICMP_UGT" -> "ICMP_ULT"
    [] pred = "ICMP_ULT" -> "ICMP_UGT"
    [] pred = "ICMP_UGE" -> "ICMP_ULE"
    [] pred = "ICMP_ULE" -> "ICMP_UGE"
    [] pred = "ICMP_SGT" -> "ICMP_SLT"
    [] pred = "ICMP_SLT" -> "ICMP_SGT"
    [] pred = "ICMP_SGE" -> "ICMP_SLE"
    [] pred = "ICMP_SLE" -> "ICMP_SGE"
    [] OTHER -> pred

\* I.swapOperands(): the operands and the predicate are swapped together.
swapOperands(I) == MkCmp(getSwappedPredicate(I.pred), I.op1, I.op0)

\* A mutant of normalizeCmpInst: >= is not handled.
normalizeCmpInstNoGE(I) ==
  IF I.pred \in {"ICMP_UGT", "ICMP_SGT"} THEN swapOperands(I) ELSE I

normalizeCmpInst(I) ==
  CASE I.pred \in {"ICMP_UGT", "ICMP_SGT"} -> swapOperands(I)
    [] I.pred \in {"ICMP_UGE", "ICMP_SGE"} -> swapOperands(I)
    [] OTHER -> I

(***************************************************************************)
(* Tracked values and fresh variables.                                     *)
(***************************************************************************)
\* Names that start with "shadow.mem".
ShadowNames == {"shadow.mem.0"}

isTrackedType(v, track_ptr) ==
  IF isPointerTy(v) THEN track_ptr ELSE v.tyk = "int"

isTracked(v, track_ptr) ==
  IF v.name \in ShadowNames THEN FALSE ELSE isTrackedType(v, track_ptr)

isPointer(v, track_ptr) == isPointerTy(v) /\ track_ptr

\* m_vfac.get(): the n-th fresh variable name of the variable factory.
FreshName(n) == "_t" \o ToString(n)

(***************************************************************************)
(* Statements (crab basic_block_t): an operation, the variable defined and *)
(* up to two operands, each a literal.                                     *)
(***************************************************************************)
MkStmtRel(op, lhs, a, b, rel, k, uns) ==
  [op |-> op, lhs |-> lhs, a |-> a, b |-> b, rel |-> rel, k |-> k, uns |-> uns]

MkStmt(op, lhs, a, b) == MkStmtRel(op, lhs, a, b, "", 0, FALSE)

assign(lhs, a) == MkStmt("assign", lhs, a, NoLit)

bool_assign(lhs, a) == MkStmt("bool_assign", lhs, a, NoLit)

ptr_assign(lhs, rhs, off) == MkStmt("ptr_assign", lhs, rhs, IntCst(off))

ptr_null(lhs) == MkStmt("ptr_null", lhs, NoLit, NoLit)

havoc_stmt(lhs) == MkStmt("havoc", lhs, NoLit, NoLit)

(***************************************************************************)
(* CrabPhiVisitor::visitBasicBlock for one incoming edge.  BB is the       *)
(* sequence of the PHI nodes of the destination, each with the PHI node    *)
(* itself (phi) and its incoming value for the edge (inc).  The visitor's  *)
(* running state acc holds old_val_map (map), the statements appended to   *)
(* m_bb (stmts), the number of fresh variables made (n) and the literal    *)
(* cache (cache).                                                          *)
(***************************************************************************)
PhiValues(BB) == {BB[j].phi : j \in 1 .. Len(BB)}

MapInsert(map, v, x) ==
  [u \in DOMAIN map \cup {v} |-> IF u \in DOMAIN map THEN map[u] ELSE x]

\* Lines 1253-1278: the old value of the PHI node v, whose literal is
\* phi_val_ref, is saved in a fresh variable.
SaveOldValue(acc, v, phi_val_ref, cache) ==
  LET lhs == FreshName(acc.n + 1)
      save(st) == [acc EXCEPT !.map = MapInsert(@, v, lhs),
                              !.stmts = Append(@, st),
                              !.n = @ + 1,
                              !.cache = cache]
  IN  CASE phi_val_ref.cls = "bool" -> save(bool_assign(lhs, phi_val_ref))
        [] phi_val_ref.cls = "int" -> save(assign(lhs, phi_val_ref))
        [] phi_val_ref.cls = "ptr" ->
             IF phi_val_ref.isVar THEN save(ptr_assign(lhs, phi_val_ref, 0))
             ELSE save(ptr_null(lhs))
        [] OTHER -> [acc EXCEPT !.err = TRUE]

\* A mutant of SaveOldValues: no old value is saved.
SaveNothing(BB, i, acc, bignums, track_ptr) == acc

\* The first loop, lines 1244-1281, from the i-th PHI node on.
RECURSIVE SaveOldValues(_, _, _, _, _)
SaveOldValues(BB, i, acc, bignums, track_ptr) ==
  IF i > Len(BB) THEN acc
  ELSE IF /\ isTracked(BB[i].inc, track_ptr)
          /\ BB[i].inc \in PhiValues(BB)
          /\ BB[i].inc \notin DOMAIN acc.map
  THEN Bind(getLit(acc.cache, BB[i].inc, bignums), LAMBDA r :
       Bind(SaveOldValue(acc, BB[i].inc, r[1], r[2]), LAMBDA next :
         SaveOldValues(BB, i + 1, next, bignums, track_ptr)))
  ELSE SaveOldValues(BB, i + 1, acc, bignums, track_ptr)

\* Lines 1294-1327: the PHI node phi, whose literal is lhs_ref, is assigned
\* its incoming value v.
AssignPhi(acc, phi, lhs_ref, cache, v, bignums, track_ptr) ==
  IF ~lhs_ref.isVar THEN [acc EXCEPT !.err = TRUE]
  ELSE IF v \in DOMAIN acc.map
  THEN IF isBool(phi)
       THEN [acc EXCEPT !.cache = cache, !.stmts =
               Append(@, bool_assign(lhs_ref.var, BoolVarLit(acc.map[v])))]
       ELSE IF phi.tyk = "int"
       THEN [acc EXCEPT !.cache = cache, !.stmts =
               Append(@, assign(lhs_ref.var, IntVarLit(acc.map[v])))]
       ELSE IF isPointer(phi, track_ptr)
       THEN [acc EXCEPT !.cache = cache, !.stmts =
               Append(@, ptr_assign(lhs_ref.var, PtrVarLit(acc.map[v]), 0))]
       ELSE [acc EXCEPT !.cache = cache]
  ELSE Bind(getLit(cache, v, bignums), LAMBDA r :
         [acc EXCEPT !.cache = r[2], !.stmts =
            Append(@, CASE r[1].cls = "bool" -> bool_assign(lhs_ref.var, r[1])
                        [] r[1].cls = "int" -> assign(lhs_ref.var, r[1])
                        [] r[1].cls = "ptr" ->
                             IF r[1].isVar THEN ptr_assign(lhs_ref.var, r[1], 0)
                             ELSE ptr_null(lhs_ref.var)
                        [] OTHER -> havoc_stmt(lhs_ref.var))])

\* The second loop, lines 1283-1328, from the i-th PHI node on.
RECURSIVE AssignPhis(_, _, _, _, _)
AssignPhis(BB, i, acc, bignums, track_ptr) ==
  IF i > Len(BB) THEN acc
  ELSE IF ~isTracked(BB[i].phi, track_ptr)
  THEN AssignPhis(BB, i + 1, acc, bignums, track_ptr)
  ELSE Bind(getLit(acc.cache, BB[i].phi, bignums), LAMBDA r :
       Bind(AssignPhi(acc, BB[i].phi, r[1], r[2], BB[i].inc, bignums, track_ptr),
            LAMBDA next : AssignPhis(BB, i + 1, next, bignums, track_ptr)))

\* visitBasicBlock: the statements appended to stmts, with n fresh variables
\* made before and the literal cache cache.
visitBasicBlock(BB, stmts, n, cache, bignums, track_ptr) ==
  Bind([map |-> EmptyCache, stmts |-> stmts, n |-> n, cache |-> cache,
        err |-> FALSE],
       LAMBDA acc0 :
         IF Len(BB) = 0 THEN acc0
         ELSE Bind(SaveOldValues(BB, 1, acc0, bignums, track_ptr), LAMBDA acc1 :
                AssignPhis(BB, 1, acc1, bignums, track_ptr)))

(***************************************************************************)
(* Constraints and the statements that assume them.                        *)
(***************************************************************************)
\* lin_cst_t: a rel b + k, with the unsigned mark of set_unsigned().
LinCst(rel, a, b, k) == [rel |-> rel, a |-> a, b |-> b, k |-> k, uns |-> FALSE]

set_unsigned(cst) == [cst EXCEPT !.uns = TRUE]

NoCst == LinCst("none", NoLit, NoLit, 0)

\* ptr_cst_t: mk_eq_null, mk_diseq_null, mk_eq, mk_diseq, mk_true, mk_false.
PtrCst(rel, a, b) == LinCst(rel, a, b, 0)

assume(cst) == MkStmtRel("assume", "", cst.a, cst.b, cst.rel, cst.k, cst.uns)

ptr_assume(cst) == MkStmtRel("ptr_assume", "", cst.a, cst.b, cst.rel, 0, FALSE)

bool_assume(var) == MkStmt("bool_assume", "", BoolVarLit(var), NoLit)

bool_not_assume(var) == MkStmt("bool_not_assume", "", BoolVarLit(var), NoLit)

unreachable_stmt == MkStmt("unreachable", "", NoLit, NoLit)

\* ret(var): the variable returned, whatever its type.
ret_stmt(var) == MkStmt("ret", "", MkLit("var", TRUE, var, 0), NoLit)

assertion_false == MkStmt("assertion", "", NoLit, NoLit)

\* Lines 1127-1170: the constraint of the normalised comparison of the
\* literals op0 and op1.
IntCmpCst(pred, op0, op1, isNegated) ==
  CASE pred = "ICMP_EQ" ->
         IF ~isNegated THEN LinCst("==", op0, op1, 0)
         ELSE LinCst("!=", op0, op1, 0)
    [] pred = "ICMP_NE" ->
         IF ~isNegated THEN LinCst("!=", op0, op1, 0)
         ELSE LinCst("==", op0, op1, 0)
    [] pred = "ICMP_ULT" ->
         IF ~isNegated THEN set_unsigned(LinCst("<=", op0, op1, 0 - 1))
         ELSE set_unsigned(LinCst(">=", op0, op1, 0))
    [] pred = "ICMP_SLT" ->
         IF ~isNegated THEN LinCst("<=", op0, op1, 0 - 1)
         ELSE LinCst(">=", op0, op1, 0)
    [] pred = "ICMP_ULE" ->
         IF ~isNegated THEN set_unsigned(LinCst("<=", op0, op1, 0))
         ELSE set_unsigned(LinCst(">=", op0, op1, 1))
    [] pred = "ICMP_SLE" ->
         IF ~isNegated THEN LinCst("<=", op0, op1, 0)
         ELSE LinCst(">=", op0, op1, 1)
    [] OTHER -> NoCst

\* cmpInstToCrabInt: <<the constraint or NoCst, the literal cache>>.
cmpInstToCrabInt(I0, cache, bignums, isNegated) ==
  Bind(normalizeCmpInst(I0), LAMBDA I :
  Bind(getLit(cache, I.op0, bignums), LAMBDA r0 :
    IF r0[1].cls # "int" THEN <<NoCst, r0[2]>>
    ELSE Bind(getLit(r0[2], I.op1, bignums), LAMBDA r1 :
           IF r1[1].cls # "int" THEN <<NoCst, r1[2]>>
           ELSE <<IntCmpCst(I.pred, r0[1], r1[1], isNegated), r1[2]>>)))

\* Lines 1075-1107: the constraint of the comparison of the literals ref0
\* and ref1.
PtrCmpCst(pred, ref0, ref1, isNegated) ==
  IF pred \notin {"ICMP_EQ", "ICMP_NE"} THEN NoCst
  ELSE IF (pred = "ICMP_EQ" /\ ~isNegated) \/ (pred = "ICMP_NE" /\ isNegated)
  THEN IF ref0.isVar /\ ~ref1.isVar THEN PtrCst("eq_null", ref0, NoLit)
       ELSE IF ~ref0.isVar /\ ref1.isVar THEN PtrCst("eq_null", ref1, NoLit)
       ELSE IF ref0.isVar /\ ref1.isVar THEN PtrCst("eq", ref0, ref1)
       ELSE PtrCst("true", NoLit, NoLit)
  ELSE IF ref0.isVar /\ ~ref1.isVar THEN PtrCst("diseq_null", ref0, NoLit)
       ELSE IF ~ref0.isVar /\ ref1.isVar THEN PtrCst("diseq_null", ref1, NoLit)
       ELSE IF ref0.isVar /\ ref1.isVar THEN PtrCst("diseq", ref0, ref1)
       ELSE PtrCst("false", NoLit, NoLit)

\* cmpInstToCrabPtr: <<the constraint or NoCst, the literal cache>>.
cmpInstToCrabPtr(I0, cache, bignums, isNegated) ==
  Bind(normalizeCmpInst(I0), LAMBDA I :
  Bind(getLit(cache, I.op0, bignums), LAMBDA r0 :
    IF r0[1].cls # "ptr" THEN <<NoCst, r0[2]>>
    ELSE Bind(getLit(r0[2], I.op1, bignums), LAMBDA r1 :
           IF r1[1].cls # "ptr" THEN <<NoCst, r1[2]>>
           ELSE <<PtrCmpCst(I.pred, r0[1], r1[1], isNegated), r1[2]>>)))

(***************************************************************************)
(* Source functions.  A function is a sequence of blocks; a block has a    *)
(* name, its PHI nodes (each with its incoming value per predecessor), its *)
(* other instructions and its terminator.                                  *)
(***************************************************************************)
NoValue == MkValue("none", "other", 0, 0, "")

NoCmp == MkCmp("none", NoValue, NoValue)

\* A terminator: op is "br", "condbr", "switch", "ret", "unreachable" or
\* "other"; cond is the condition of a conditional branch, cmp the CmpInst
\* that defines it (NoCmp when it is not a comparison), uses the number of
\* uses of cond; succs are the successors in the order of succs(B) (for a
\* switch the default destination first); val is the returned value.
MkTerm(op, cond, cmp, uses, succs, val) ==
  [op |-> op, cond |-> cond, cmp |-> cmp, uses |-> uses, succs |-> succs,
   val |-> val]

Br(dst) == MkTerm("br", NoValue, NoCmp, 0, <<dst>>, NoValue)

CondBr(cond, cmp, uses, t, f) == MkTerm("condbr", cond, cmp, uses, <<t, f>>, NoValue)

Switch(default, cases) == MkTerm("switch", NoValue, NoCmp, 0, <<default>> \o cases, NoValue)

Ret(val) == MkTerm("ret", NoValue, NoCmp, 0, <<>>, val)

Unreachable == MkTerm("unreachable", NoValue, NoCmp, 0, <<>>, NoValue)

\* An instruction of a block's body: op is "binop", with its opcode, the
\* instruction as a value (res) and its operands.
MkInst(op, opcode, res, op0, op1) ==
  [op |-> op, opcode |-> opcode, res |-> res, op0 |-> op0, op1 |-> op1]

MkBlock(name, phis, insts, term) ==
  [name |-> name, phis |-> phis, insts |-> insts, term |-> term]

\* A PHI node with its incoming values, a function from the names of the
\* predecessors.
MkPhi(phi, incs) == [phi |-> phi, incs |-> incs]

\* retTy is the return type, given as a value of that type (NoValue for
\* void); args is the sequence of the arguments.
MkFunction(name, args, retTy, isVarArg, blocks) ==
  [name |-> name, args |-> args, retTy |-> retTy, isVarArg |-> isVarArg,
   blocks |-> blocks]

\* succs(B).
succs(b) == b.term.succs

BlockNames(f) == {f.blocks[i].name : i \in 1 .. Len(f.blocks)}

BlockOf(f, name) ==
  f.blocks[CHOOSE i \in 1 .. Len(f.blocks) : f.blocks[i].name = name]

\* The PHI nodes of dst with their incoming values for the edge from src, as
\* the PHI visitor reads them.
PhisOnEdge(f, src, dst) ==
  LET phis == BlockOf(f, dst).phis
  IN  [i \in 1 .. Len(phis) |-> [phi |-> phis[i].phi, inc |-> phis[i].incs[src]]]

(***************************************************************************)
(* The graph under construction (cfg_t) and the builder (CfgBuilderImpl).  *)
(***************************************************************************)
\* basic_block_label_t of a source block and of a source edge.
NodeLabel(name) == name

EdgeLabel(id) == "__@bb_" \o ToString(id)

cfg_insert(cfg, l) ==
  IF l \in DOMAIN cfg.blocks THEN cfg
  ELSE [cfg EXCEPT !.blocks = MapInsert(@, l, <<>>)]

\* src >> dst and src -= dst.
cfg_add_edge(cfg, s, d) == [cfg EXCEPT !.edges = @ \cup {<<s, d>>}]

cfg_rem_edge(cfg, s, d) == [cfg EXCEPT !.edges = @ \ {<<s, d>>}]

cfg_append(cfg, l, st) == [cfg EXCEPT !.blocks[l] = Append(@, st)]

cfg_set_exit(cfg, l) == [cfg EXCEPT !.exit = l, !.has_exit = TRUE]

NextBlocks(cfg, l) == {e[2] : e \in {x \in cfg.edges : x[1] = l}}

\* CfgBuilderImpl::CfgBuilderImpl: the graph holds the entry block, whose
\* label make_crab_basic_block_label has numbered and mapped.
NewBuilder(f) ==
  [ m_is_cfg_built |-> FALSE,
    m_id |-> 1,
    m_node_to_crab_map |-> MapInsert(EmptyCache, f.blocks[1].name,
                                     NodeLabel(f.blocks[1].name)),
    m_edge_to_crab_map |-> EmptyCache,
    m_cfg |-> [ entry |-> NodeLabel(f.blocks[1].name),
                exit |-> "", has_exit |-> FALSE,
                blocks |-> MapInsert(EmptyCache, NodeLabel(f.blocks[1].name), <<>>),
                edges |-> {},
                decl |-> [set |-> FALSE, name |-> "", inputs |-> <<>>,
                          outputs |-> <<>>, array_params |-> {}] ],
    cache |-> EmptyCache,
    n |-> 0,
    m_object_id |-> 0,
    init_regions |-> {},
    err |-> "" ]

\* make_crab_basic_block_label(bb) and add_block.
add_block(B, name) ==
  IF name \in DOMAIN B.m_node_to_crab_map THEN B
  ELSE [B EXCEPT !.m_id = @ + 1,
                 !.m_node_to_crab_map = MapInsert(@, name, NodeLabel(name)),
                 !.m_cfg = cfg_insert(@, NodeLabel(name))]

add_edge(B, src, dst) ==
  [B EXCEPT !.m_cfg = cfg_add_edge(@, B.m_node_to_crab_map[src],
                                      B.m_node_to_crab_map[dst])]

\* A mutant of add_block_in_between: the direct edge is added, not removed.
add_block_between_keep(cfg, src, dst, bb) ==
  cfg_add_edge(cfg_add_edge(cfg_add_edge(cfg, src, dst), src, bb), bb, dst)

add_block_in_between(cfg, src, dst, bb) ==
  cfg_add_edge(cfg_add_edge(cfg_rem_edge(cfg, src, dst), src, bb), bb, dst)

(***************************************************************************)
(* The builder's parameters (CrabBuilderParams), as far as modelled.       *)
(* track_ptr is track_pointers(), track_arr says that the track level is   *)
(* ARR.                                                                    *)
(***************************************************************************)
\* The parameters of a track level below ARR.
MkParams(bignums, trackp, interproc, useless_havoc) ==
  [enable_bignums |-> bignums, track_ptr |-> trackp,
   interprocedural |-> interproc, include_useless_havoc |-> useless_havoc,
   track_arr |-> FALSE, lower_singleton_aliases |-> FALSE,
   initialize_arrays |-> FALSE, aggressive_initialize_arrays |-> FALSE]

\* The parameters of the track level ARR, which tracks pointers too.
MkArrParams(bignums, interproc, useless_havoc, lower_singleton) ==
  [enable_bignums |-> bignums, track_ptr |-> TRUE,
   interprocedural |-> interproc, include_useless_havoc |-> useless_havoc,
   track_arr |-> TRUE, lower_singleton_aliases |-> lower_singleton,
   initialize_arrays |-> FALSE, aggressive_initialize_arrays |-> FALSE]

\* The parameters of the track level ARR with the initialization of arrays
\* (initialize_arrays), aggressive or not.
MkInitParams(lower_singleton, aggressive) ==
  [enable_bignums |-> FALSE, track_ptr |-> TRUE,
   interprocedural |-> FALSE, include_useless_havoc |-> TRUE,
   track_arr |-> TRUE, lower_singleton_aliases |-> lower_singleton,
   initialize_arrays |-> TRUE, aggressive_initialize_arrays |-> aggressive]

enabled_array_initialization(P) == P.track_arr /\ P.initialize_arrays

enabled_aggressive_array_initialization(P) ==
  P.track_arr /\ P.initialize_arrays /\ P.aggressive_initialize_arrays

emit(B, l, st) == [B EXCEPT !.m_cfg = cfg_append(@, l, st)]

\* havoc(v, bb, include_useless_havoc).
havoc(B, l, lhs, P) ==
  IF P.include_useless_havoc THEN emit(B, l, havoc_stmt(lhs)) ELSE B

\* The lookup of a literal by the builder's factory: <<literal, builder>>.
lfac_getLit(B, v, P) ==
  Bind(getLit(B.cache, v, P.enable_bignums),
       LAMBDA r : <<r[1], [B EXCEPT !.cache = r[2]]>>)

\* mkIntVar, mkBoolVar, mkPtrVar: <<the fresh variable, builder>>.
mkFreshVar(B) == <<FreshName(B.n + 1), [B EXCEPT !.n = @ + 1]>>

(***************************************************************************)
(* CrabInstVisitor, for the arithmetic binary operators.                   *)
(***************************************************************************)
ArithOpcodes ==
  {"Add", "Sub", "Mul", "SDiv", "UDiv", "SRem", "URem", "Shl", "AShr", "LShr"}

\* The statement doBinOp appends for an arithmetic opcode.
BinOpName(opcode) ==
  CASE opcode = "Add" -> "add"
    [] opcode = "Sub" -> "sub"
    [] opcode = "Mul" -> "mul"
    [] opcode = "SDiv" -> "div"
    [] opcode = "UDiv" -> "udiv"
    [] opcode = "SRem" -> "rem"
    [] opcode = "URem" -> "urem"
    [] opcode = "Shl" -> "shl"
    [] opcode = "AShr" -> "ashr"
    [] opcode = "LShr" -> "lshr"
    [] opcode = "And" -> "bitwise_and"
    [] opcode = "Or" -> "bitwise_or"
    [] opcode = "Xor" -> "bitwise_xor"
    [] OTHER -> "error"

\* doBinOp: each case of the switch appends a statement when op1 is a
\* variable and op2 a variable or a constant, and returns; an opcode
\* without a case is an error.
doBinOp(B, l, opcode, lhs, op1, op2) ==
  IF BinOpName(opcode) = "error"
  THEN [B EXCEPT !.err = "unexpected problem with binary operator"]
  ELSE IF op1.isVar THEN emit(B, l, MkStmt(BinOpName(opcode), lhs, op1, op2))
  ELSE B

\* The part of doArithmetic after the literals of the operands are known.
doArithmeticOn(B, l, lhs, opcode, op1, op2) ==
  IF ~op1.isVar /\ ~op2.isVar
  THEN Bind(mkFreshVar(B), LAMBDA t1 :
       Bind(mkFreshVar(t1[2]), LAMBDA t2 :
         doBinOp(emit(emit(t2[2], l, assign(t1[1], op1)), l, assign(t2[1], op2)),
                 l, opcode, lhs, IntVarLit(t1[1]), IntVarLit(t2[1]))))
  ELSE IF ~op1.isVar
  THEN Bind(mkFreshVar(B), LAMBDA t :
         doBinOp(emit(t[2], l, assign(t[1], op1)), l, opcode, lhs,
                 IntVarLit(t[1]), op2))
  ELSE doBinOp(B, l, opcode, lhs, op1, op2)

doArithmetic(B0, l, ref, I, P) ==
  IF ~(ref.isVar /\ ref.cls = "int")
  THEN [B0 EXCEPT !.err = "lhs of arithmetic operation must be an integer"]
  ELSE
    Bind(lfac_getLit(B0, I.op0, P), LAMBDA r1 :
      IF r1[1].cls # "int" THEN havoc(r1[2], l, ref.var, P)
      ELSE
        Bind(lfac_getLit(r1[2], I.op1, P), LAMBDA r2 :
          IF r2[1].cls # "int" THEN havoc(r2[2], l, ref.var, P)
          ELSE doArithmeticOn(r2[2], l, ref.var, I.opcode, r1[1], r2[1])))

\* m_bb.bool_assign(lhs, rhs, true): lhs := not(rhs).
bool_assign_not(lhs, a) == MkStmtRel("bool_assign", lhs, a, NoLit, "not", 0, FALSE)

isBoolTrue(ref) == ~ref.isVar /\ ref.num = 1

isBoolFalse(ref) == ~ref.isVar /\ ref.num = 0

\* The switch of doBoolLogicOp (lines 1610-1665) on the literals b1 and b2.
BoolLogic(B, l, op, lhs, b1, b2) ==
  CASE op = "And" ->
         IF b1.isVar /\ b2.isVar
         THEN emit(B, l, MkStmt("bool_and", lhs, b1, b2))
         ELSE IF ~b1.isVar /\ ~b2.isVar
         THEN emit(B, l, bool_assign(lhs, BoolCst(isBoolTrue(b1) /\ isBoolTrue(b2))))
         ELSE IF isBoolFalse(b1) \/ isBoolFalse(b2)
         THEN emit(B, l, bool_assign(lhs, BoolCst(FALSE)))
         ELSE IF isBoolTrue(b1) THEN emit(B, l, bool_assign(lhs, b2))
         ELSE emit(B, l, bool_assign(lhs, b1))
    [] op = "Or" ->
         IF b1.isVar /\ b2.isVar
         THEN emit(B, l, MkStmt("bool_or", lhs, b1, b2))
         ELSE IF ~b1.isVar /\ ~b2.isVar
         THEN emit(B, l, bool_assign(lhs, BoolCst(isBoolTrue(b1) \/ isBoolTrue(b2))))
         ELSE IF isBoolTrue(b1) \/ isBoolTrue(b2)
         THEN emit(B, l, bool_assign(lhs, BoolCst(TRUE)))
         ELSE IF isBoolFalse(b1) THEN emit(B, l, bool_assign(lhs, b2))
         ELSE emit(B, l, bool_assign(lhs, b1))
    [] op = "Xor" ->
         IF b1.isVar /\ b2.isVar
         THEN emit(B, l, MkStmt("bool_xor", lhs, b1, b2))
         ELSE IF ~b1.isVar /\ ~b2.isVar
         THEN emit(B, l, bool_assign(lhs, BoolCst(isBoolTrue(b1) # isBoolTrue(b2))))
         ELSE IF isBoolTrue(b1) THEN emit(B, l, bool_assign_not(lhs, b2))
         ELSE IF isBoolFalse(b1) THEN emit(B, l, bool_assign(lhs, b2))
         ELSE IF isBoolTrue(b2) THEN emit(B, l, bool_assign_not(lhs, b1))
         ELSE emit(B, l, bool_assign(lhs, b1))

\* doBoolLogicOp with the literal ref of the instruction.
doBoolLogicOp(B0, l, ref, I, P) ==
  IF ref.cls # "bool"
  THEN [B0 EXCEPT !.err = "lhs of arithmetic operation must be an Boolean"]
  ELSE
    Bind(lfac_getLit(B0, I.op0, P), LAMBDA r1 :
      IF r1[1].cls # "bool" THEN havoc(r1[2], l, ref.var, P)
      ELSE
        Bind(lfac_getLit(r1[2], I.op1, P), LAMBDA r2 :
          IF r2[1].cls # "bool" THEN havoc(r2[2], l, ref.var, P)
          ELSE BoolLogic(r2[2], l, I.opcode, ref.var, r1[1], r2[1])))

\* The switch of doIntLogicOp (lines 1695-1704): And, Or and Xor all hand
\* BinaryOperator::And to doBinOp.
IntLogic(B, l, opcode, lhs, op1, op2) == doBinOp(B, l, "And", lhs, op1, op2)

doIntLogicOp(B0, l, ref, I, P) ==
  IF ref.cls # "int"
  THEN [B0 EXCEPT !.err = "lhs of bitwise operation must be an integer"]
  ELSE
    Bind(lfac_getLit(B0, I.op0, P), LAMBDA r1 :
      IF r1[1].cls # "int" THEN havoc(r1[2], l, ref.var, P)
      ELSE
        Bind(lfac_getLit(r1[2], I.op1, P), LAMBDA r2 :
          IF r2[1].cls # "int" THEN havoc(r2[2], l, ref.var, P)
          ELSE IntLogic(r2[2], l, I.opcode, ref.var, r1[1], r2[1])))

visitBinaryOperator(B, l, I, P) ==
  IF ~isTracked(I.res, P.track_ptr) THEN B
  ELSE Bind(lfac_getLit(B, I.res, P), LAMBDA r :
         IF ~r[1].isVar
         THEN [B EXCEPT !.err = "unexpected lhs of binary operator"]
         ELSE IF I.opcode \in ArithOpcodes
         THEN doArithmetic(r[2], l, r[1], I, P)
         ELSE IF I.opcode \in {"And", "Or", "Xor"}
         THEN IF isBool(I.res) THEN doBoolLogicOp(r[2], l, r[1], I, P)
              ELSE doIntLogicOp(r[2], l, r[1], I, P)
         ELSE havoc(r[2], l, r[1].var, P))

(***************************************************************************)
(* CrabInstVisitor::visitSelectInst.  A select has its condition (cond,    *)
(* with the comparison that defines it or NoCmp), its true value op0 and   *)
(* its false value op1.                                                    *)
(***************************************************************************)
MkSelect(res, cond, cmp, tval, fval) ==
  [op |-> "select", opcode |-> "", res |-> res, op0 |-> tval, op1 |-> fval,
   cond |-> cond, cmp |-> cmp]

\* m_bb.bool_select(lhs, cond, b1, b2) and m_bb.select(lhs, cond, e1, e2):
\* cond is the literal of a variable, or cst the constraint selected on;
\* a is the true arm and b the false arm.
select_stmt(op, lhs, cond, cst, a, b) ==
  [op |-> op, lhs |-> lhs, a |-> a, b |-> b, rel |-> "", k |-> 0,
   uns |-> FALSE, cond |-> cond, cst |-> cst]

bool_select(lhs, cond, b1, b2) ==
  select_stmt("bool_select", lhs, BoolVarLit(cond), NoCst, BoolVarLit(b1),
              BoolVarLit(b2))

zext(src, dst) == MkStmt("zext", dst, BoolVarLit(src), NoLit)

\* Lines 2258-2276: the select of booleans on a constant condition.
BoolSelectConst(B, l, lhs, cond, op1, op2) ==
  IF cond.bits = 1 THEN emit(B, l, bool_assign(lhs, op1))
  ELSE emit(B, l, bool_assign(lhs, op2))

\* Lines 2280-2300: the select of booleans on the variable c.
BoolSelectVar(B, l, lhs, c, op1, op2) ==
  IF ~op1.isVar /\ ~op2.isVar
  THEN Bind(mkFreshVar(B), LAMBDA tt_v :
       Bind(mkFreshVar(tt_v[2]), LAMBDA ff_v :
         emit(emit(emit(ff_v[2], l, bool_assign(tt_v[1], BoolCst(isBoolTrue(op1)))),
                   l, bool_assign(ff_v[1], BoolCst(isBoolTrue(op2)))),
              l, bool_select(lhs, c.var, tt_v[1], ff_v[1]))))
  ELSE IF ~op1.isVar
  THEN Bind(mkFreshVar(B), LAMBDA tt_v :
         emit(emit(tt_v[2], l, bool_assign(tt_v[1], BoolCst(isBoolTrue(op1)))),
              l, bool_select(lhs, c.var, tt_v[1], op2.var)))
  ELSE IF ~op2.isVar
  THEN Bind(mkFreshVar(B), LAMBDA ff_v :
         emit(emit(ff_v[2], l, bool_assign(ff_v[1], BoolCst(isBoolTrue(op2)))),
              l, bool_select(lhs, c.var, op1.var, ff_v[1])))
  ELSE emit(B, l, bool_select(lhs, c.var, op1.var, op1.var))

\* Lines 2245-2301: the select of booleans.
BoolSelect(B, l, lhs, I, c, op1, op2, P) ==
  IF op1.cls # "bool" \/ op2.cls # "bool" THEN havoc(B, l, lhs, P)
  ELSE IF I.cond.kind = "cint" THEN BoolSelectConst(B, l, lhs, I.cond, op1, op2)
  ELSE BoolSelectVar(B, l, lhs, c, op1, op2)

\* Lines 2302-2352: the select of integers.
IntSelect(B, l, lhs, I, c, op1, op2, P) ==
  IF op1.cls # "int" \/ op2.cls # "int" THEN havoc(B, l, lhs, P)
  ELSE IF I.cond.kind = "cint"
  THEN emit(B, l, assign(lhs, IF I.cond.bits = 1 THEN op1 ELSE op2))
  ELSE Bind(IF I.cmp # NoCmp
            THEN cmpInstToCrabInt(I.cmp, B.cache, P.enable_bignums, FALSE)
            ELSE <<NoCst, B.cache>>,
            LAMBDA r :
              IF r[1] # NoCst
              THEN emit([B EXCEPT !.cache = r[2]], l,
                        select_stmt("select", lhs, NoLit, r[1], op1, op2))
              ELSE Bind(mkFreshVar([B EXCEPT !.cache = r[2]]), LAMBDA icond :
                     emit(emit(icond[2], l, zext(c.var, icond[1])), l,
                          select_stmt("select", lhs, IntVarLit(icond[1]), NoCst,
                                      op1, op2))))

visitSelectInst(B, l, I, P) ==
  IF ~isTracked(I.res, P.track_ptr) THEN B
  ELSE Bind(lfac_getLit(B, I.res, P), LAMBDA lhs :
    IF isPointer(I.res, P.track_ptr) THEN havoc(lhs[2], l, lhs[1].var, P)
    ELSE Bind(lfac_getLit(lhs[2], I.cond, P), LAMBDA c :
         Bind(lfac_getLit(c[2], I.op0, P), LAMBDA op1 :
         Bind(lfac_getLit(op1[2], I.op1, P), LAMBDA op2 :
           IF isBool(I.res)
           THEN BoolSelect(op2[2], l, lhs[1].var, I, c[1], op1[1], op2[1], P)
           ELSE IF isInteger(I.res)
           THEN IntSelect(op2[2], l, lhs[1].var, I, c[1], op1[1], op2[1], P)
           ELSE op2[2]))))

(***************************************************************************)
(* CrabInstVisitor::visitGetElementPtrInst.  The type path of a GEP is a    *)
(* sequence of steps: a step into a structure with the byte offsets of its *)
(* fields (the StructLayout) and a constant field index, or a step into a  *)
(* sequential type with the store size and the alloc size of its element   *)
(* (the DataLayout) and an index.                                          *)
(***************************************************************************)
StructStep(layout, idx) ==
  [kind |-> "struct", layout |-> layout, store |-> 0, alloc |-> 0, idx |-> idx]

SeqStep(store, alloc, idx) ==
  [kind |-> "seq", layout |-> <<>>, store |-> store, alloc |-> alloc, idx |-> idx]

MkGep(res, ptr, steps) ==
  [op |-> "gep", opcode |-> "", res |-> res, op0 |-> ptr, op1 |-> NoValue,
   steps |-> steps]

\* m_dl->getPointerTypeSizeInBits: pointers have the width of the word.
PointerSizeInBits == WordBits

\* getStructLayout(t)->getElementOffset(field).
fieldOffset(step, field) == step.layout[field + 1]

\* dl.getTypeStoreSize(t).
storageSize(step) == step.store

\* lhs := rhs + idx * size, with a literal idx.
ptr_assign_exp(lhs, rhs, idx, size) ==
  MkStmtRel("ptr_assign", lhs, rhs, idx, "*", size, FALSE)

\* GEPOperator::accumulateConstantOffset from the i-th step on:
\* <<whether all indices are constants, the offset>>, the offset an APInt
\* of the width of a pointer: a structure adds the offset of the field, a
\* sequential type the sign-extended index times the alloc size of the
\* element, and the sum wraps.
RECURSIVE accumulateConstantOffset(_, _, _)
accumulateConstantOffset(steps, i, offset) ==
  IF i > Len(steps) THEN <<TRUE, offset>>
  ELSE IF steps[i].idx.kind # "cint" THEN <<FALSE, offset>>
  ELSE IF steps[i].kind = "struct"
  THEN accumulateConstantOffset(steps, i + 1,
         (offset + fieldOffset(steps[i], steps[i].idx.bits))
           % Pow2(PointerSizeInBits))
  ELSE accumulateConstantOffset(steps, i + 1,
         (offset + SignedVal(steps[i].idx.w, steps[i].idx.bits) * steps[i].alloc)
           % Pow2(PointerSizeInBits))

\* Lines 2388-2403: the translation of a constant offset.
GepConstant(B, l, lhs, ptr, offset, P) ==
  Bind(toZNumber(PointerSizeInBits, offset, P.enable_bignums), LAMBDA o :
    IF o[2] THEN emit(B, l, havoc_stmt(lhs))
    ELSE emit(B, l, ptr_assign(lhs, ptr, o[1])))

\* The base of the next assignment of the symbolic translation.
GepBase(lhs, ptr, already_assigned) ==
  IF already_assigned THEN PtrVarLit(lhs) ELSE ptr

\* Lines 2427-2445: a step into a sequential type with a non-zero index.
GepSequential(B, l, lhs, ptr, step, already_assigned, P) ==
  Bind(lfac_getLit(B, step.idx, P), LAMBDA r :
    IF r[1].cls # "int" THEN [r[2] EXCEPT !.err = "unexpected GEP index"]
    ELSE IF r[1].isVar
    THEN emit(r[2], l, ptr_assign_exp(lhs, GepBase(lhs, ptr, already_assigned),
                                      r[1], storageSize(step)))
    ELSE emit(r[2], l, ptr_assign(lhs, GepBase(lhs, ptr, already_assigned),
                                  r[1].num * storageSize(step))))

\* Lines 2407-2447: the steps of the GEP from the i-th on.
RECURSIVE GepSymbolic(_, _, _, _, _, _, _, _)
GepSymbolic(B, l, lhs, ptr, steps, i, already_assigned, P) ==
  IF i > Len(steps) \/ B.err # "" THEN B
  ELSE IF steps[i].kind = "struct"
  THEN IF steps[i].idx.kind = "cint"
       THEN Bind(emit(B, l, ptr_assign(lhs, GepBase(lhs, ptr, already_assigned),
                                       fieldOffset(steps[i], steps[i].idx.bits))),
                 LAMBDA B1 : GepSymbolic(B1, l, lhs, ptr, steps, i + 1, TRUE, P))
       ELSE [B EXCEPT !.err = "GEP index expected only to be an integer"]
  ELSE IF steps[i].idx.kind = "cint" /\ steps[i].idx.bits = 0
  THEN GepSymbolic(B, l, lhs, ptr, steps, i + 1, already_assigned, P)
  ELSE Bind(GepSequential(B, l, lhs, ptr, steps[i], already_assigned, P),
            LAMBDA B1 : GepSymbolic(B1, l, lhs, ptr, steps, i + 1, TRUE, P))

\* Lines 2372-2447, once the literals of the GEP and of its pointer operand
\* are known.
GepTranslate(B, l, lhs, ptr, I, P) ==
  IF ptr = NoLit \/ ptr = PtrNull THEN havoc(B, l, lhs, P)
  ELSE Bind(accumulateConstantOffset(I.steps, 1, 0), LAMBDA a :
         IF a[1] THEN GepConstant(B, l, lhs, ptr, a[2], P)
         ELSE GepSymbolic(B, l, lhs, ptr, I.steps, 1, FALSE, P))

\* visitGetElementPtrInst; the region of the GEP is not a singleton.
visitGetElementPtrInst(B, l, I, P) ==
  IF ~isTracked(I.res, P.track_ptr) THEN B
  ELSE Bind(lfac_getLit(B, I.res, P), LAMBDA r1 :
       Bind(lfac_getLit(r1[2], I.op0, P), LAMBDA r2 :
         GepTranslate(r2[2], l, r1[1].var, r2[1], I, P)))

\* normalizeFuncParamOrRet: <<the variable, builder>>.
normalizeFuncParamOrRet(B, l, v, P) ==
  Bind(lfac_getLit(B, v, P), LAMBDA r :
  Bind(mkFreshVar(r[2]), LAMBDA t :
    IF r[1] # NoLit /\ r[1].isVar THEN <<r[1].var, r[2]>>
    ELSE IF r[1].cls = "int" THEN <<t[1], emit(t[2], l, assign(t[1], r[1]))>>
    ELSE IF r[1].cls = "bool" THEN <<t[1], emit(t[2], l, bool_assign(t[1], r[1]))>>
    ELSE IF r[1].cls = "ptr" THEN <<t[1], emit(t[2], l, ptr_null(t[1]))>>
    ELSE IF v.kind = "cexpr" /\ isTracked(v, P.track_ptr) THEN t
    ELSE <<"", [B EXCEPT !.err =
                  "cannot normalize function parameter or return value"]>>))

(***************************************************************************)
(* Memory regions (mem_region_t) and their variables.  An instruction that *)
(* touches memory carries what the heap abstraction answers for it: the    *)
(* region of its pointer operand, and for a call the regions the callee    *)
(* only reads, modifies and creates.  The bitwidth of a variable and the   *)
(* element size and the strong-update flag of an array statement are not   *)
(* kept.                                                                   *)
(***************************************************************************)
\* A region: its id, the tag of its content ("INT_REGION", "BOOL_REGION",
\* "PTR_REGION" or "UNKNOWN"), its bitwidth, and whether getSingleton()
\* gives a global, whose type then agrees with the tag.
MkRegion(id, type, bitwidth, singleton) ==
  [id |-> id, type |-> type, bitwidth |-> bitwidth, singleton |-> singleton]

\* mem_region_t().
UnknownRegion == MkRegion(0, "UNKNOWN", 0, FALSE)

isUnknown(r) == r.type = "UNKNOWN"

get_region(r) ==
  IF r.type \in {"INT_REGION", "BOOL_REGION"} THEN r ELSE UnknownRegion

\* The copy_if of get_read_only_regions, get_modified_regions and
\* get_new_regions.
FilterRegions(regions) ==
  SelectSeq(regions, LAMBDA r : r.type \in {"INT_REGION", "BOOL_REGION"})

get_read_only_regions(v) == FilterRegions(v.onlyreads)

get_modified_regions(v) == FilterRegions(v.mods)

get_new_regions(v) == FilterRegions(v.news)

\* std::find(v.begin(), v.end(), a) != v.end().
InVector(v, a) == \E i \in 1 .. Len(v) : v[i] = a

\* var_t: a name and a type.
MkVar(name, type) == [name |-> name, type |-> type]

\* m_vfac.get(mem_region.get_id()): the name kept for the region's id.
RegionName(id) == "@R" \o ToString(id)

mkArrayVar(mem_region) ==
  MkVar(RegionName(mem_region.id),
        CASE mem_region.type = "INT_REGION" -> "arr_int"
          [] mem_region.type = "BOOL_REGION" -> "arr_bool"
          [] OTHER -> "arr_ptr")

mkArraySingletonVar(mem_region) ==
  MkVar(RegionName(mem_region.id),
        CASE mem_region.type = "INT_REGION" -> "int"
          [] mem_region.type = "BOOL_REGION" -> "bool"
          [] OTHER -> "ptr")

isGlobalSingleton(r, enable_unique_scalars) ==
  /\ enable_unique_scalars
  /\ ~isUnknown(r)
  /\ r.type \in {"INT_REGION", "BOOL_REGION"}
  /\ r.singleton

\* if (isGlobalSingleton(a, ...)) mkArraySingletonVar(a) else mkArrayVar(a).
RegionVar(a, P) ==
  IF isGlobalSingleton(a, P.lower_singleton_aliases)
  THEN mkArraySingletonVar(a)
  ELSE mkArrayVar(a)

\* The type of the variable of a value.
VarType(v) ==
  IF isBool(v) THEN "bool" ELSE IF isInteger(v) THEN "int" ELSE "ptr"

\* A variable as an operand.
VarLit(v) == MkLit(v.type, TRUE, v.name, 0)

\* A statement that defines the typed variable lhs.
MkMemStmt(op, lhs, a, b) ==
  [op |-> op, lhs |-> lhs.name, a |-> a, b |-> b, rel |-> "", k |-> 0,
   uns |-> FALSE, lty |-> lhs.type]

array_store(arr, idx, val) == MkMemStmt("array_store", arr, IntVarLit(idx), val)

array_load(lhs, arr, idx) == MkStmt("array_load", lhs, VarLit(arr), IntVarLit(idx))

array_assign(lhs, rhs) == MkMemStmt("array_assign", lhs, VarLit(rhs), NoLit)

truncate(src, dst) == MkStmt("truncate", dst, IntVarLit(src), NoLit)

sext(src, dst) == MkStmt("sext", dst, IntVarLit(src), NoLit)

ptr_store(ptr, val) == MkStmt("ptr_store", ptr, PtrVarLit(val), NoLit)

ptr_load(lhs, ptr) == MkStmt("ptr_load", lhs, PtrVarLit(ptr), NoLit)

\* m_bb.callsite(name, outputs, inputs): the outputs and the inputs are
\* sequences of variables.
callsite(name, outputs, inputs) ==
  [op |-> "callsite", lhs |-> "", a |-> NoLit, b |-> NoLit, rel |-> "",
   k |-> 0, uns |-> FALSE, callee |-> name, outputs |-> outputs,
   inputs |-> inputs]

\* m_bb.ptr_new_object(lhs, id): k holds the object identifier.
ptr_new_object(lhs, id) == MkStmtRel("ptr_new_object", lhs, NoLit, NoLit, "", id, FALSE)

\* m_bb.array_init(arr, 0, ub + k, val, elem_size): the lower index is
\* always 0; a is the literal of the upper index's expression and k its
\* constant term, b the initial value.
array_init(arr, ub, k, val) ==
  [MkMemStmt("array_init", arr, ub, val) EXCEPT !.k = k]

\* entry.set_insert_point_front() and the insertion that follows it.
emit_front(B, l, st) == [B EXCEPT !.m_cfg.blocks[l] = <<st>> \o @]

(***************************************************************************)
(* CrabInstVisitor, for stores, loads, memcpy and calls.                   *)
(***************************************************************************)
\* A store of val (op0) through ptr (op1), a load (res) through ptr (op0)
\* and a memcpy to dst (op0) from src (op1), with the regions of their
\* pointers.
MkStore(val, ptr, region) ==
  [op |-> "store", opcode |-> "", res |-> NoValue, op0 |-> val, op1 |-> ptr,
   region |-> region]

MkLoad(res, ptr, region) ==
  [op |-> "load", opcode |-> "", res |-> res, op0 |-> ptr, op1 |-> NoValue,
   region |-> region]

MkMemCpy(dst, src, dst_reg, src_reg) ==
  [op |-> "memcpy", opcode |-> "", res |-> NoValue, op0 |-> dst, op1 |-> src,
   dst_reg |-> dst_reg, src_reg |-> src_reg]

\* The function a call site names, once the pointer casts are stripped.
MkCallee(name, retTy, isDeclaration, isVarArg) ==
  [name |-> name, retTy |-> retTy, isDeclaration |-> isDeclaration,
   isVarArg |-> isVarArg]

\* A call of an ordinary function (no shadow, verifier, allocation or
\* initializer function and no intrinsic); direct says that the called value
\* is the function itself and not a cast of it.
MkCall(res, callee, direct, args, onlyreads, mods, news) ==
  [op |-> "call", opcode |-> "", res |-> res, op0 |-> NoValue,
   op1 |-> NoValue, callee |-> callee, direct |-> direct, args |-> args,
   onlyreads |-> onlyreads, mods |-> mods, news |-> news]

\* Lines 2498-2510: the store into the scalar of a singleton region.
StoreSingleton(B, l, r, I, val) ==
  IF isInteger(I.op0)
  THEN emit(B, l, MkMemStmt("assign", mkArraySingletonVar(r), val, NoLit))
  ELSE emit(B, l, MkMemStmt("bool_assign", mkArraySingletonVar(r), val, NoLit))

\* Lines 2521-2556: the store into the array of the region.
ArrayStore(B, l, r, I, val) ==
  Bind(mkFreshVar([B EXCEPT !.init_regions = @ \cup {r.id}]), LAMBDA idx :
    IF val.isVar /\ r.bitwidth < I.op0.w
    THEN Bind(mkFreshVar(idx[2]), LAMBDA t :
           emit(emit(t[2], l, truncate(val.var, t[1])), l,
                array_store(mkArrayVar(r), idx[1], MkLit(val.cls, TRUE, t[1], 0))))
    ELSE emit(idx[2], l,
              array_store(mkArrayVar(r), idx[1],
                          IF val.isVar THEN val ELSE IntCst(val.num))))

\* Lines 2484-2589, once the literals of the operands are known.
StoreTranslate(B, l, I, ptr, val, P) ==
  IF ptr.cls # "ptr"
  THEN [B EXCEPT !.err = "unexpected pointer operand of store instruction"]
  ELSE IF ptr = PtrNull THEN B
  ELSE IF P.track_arr /\ (isInteger(I.op0) \/ isBool(I.op0))
  THEN IF val = NoLit
       THEN [B EXCEPT !.err = "unexpected value operand of store instruction"]
       ELSE IF isUnknown(get_region(I.region)) THEN B
       ELSE IF isGlobalSingleton(get_region(I.region), P.lower_singleton_aliases)
       THEN StoreSingleton(B, l, get_region(I.region), I, val)
       ELSE ArrayStore(B, l, get_region(I.region), I, val)
  ELSE IF isPointer(I.op0, P.track_ptr)
  THEN IF val.cls # "ptr"
       THEN [B EXCEPT !.err =
               "expecting a value operand of pointer type in store instruction"]
       ELSE IF val # PtrNull THEN emit(B, l, ptr_store(ptr.var, val.var))
       ELSE B
  ELSE B

visitStoreInst(B, l, I, P) ==
  IF I.op1.kind = "cexpr" \/ I.op0.kind = "cexpr" THEN B
  ELSE Bind(lfac_getLit(B, I.op1, P), LAMBDA rp :
       Bind(lfac_getLit(rp[2], I.op0, P), LAMBDA rv :
         StoreTranslate(rv[2], l, I, rp[1], rv[1], P)))

\* Lines 2631-2637: the load of the scalar of a singleton region.
LoadSingleton(B, l, r, I, lhs) ==
  IF isInteger(I.res)
  THEN emit(B, l, assign(lhs.var, VarLit(mkArraySingletonVar(r))))
  ELSE emit(B, l, bool_assign(lhs.var, VarLit(mkArraySingletonVar(r))))

\* Lines 2639-2667: the load from the array of the region.
ArrayLoad(B, l, r, I, lhs) ==
  IF r.bitwidth < I.res.w
  THEN Bind(mkFreshVar(B), LAMBDA t :
       Bind(mkFreshVar(t[2]), LAMBDA idx :
         emit(emit(idx[2], l, array_load(t[1], mkArrayVar(r), idx[1])), l,
              sext(t[1], lhs.var))))
  ELSE Bind(mkFreshVar(B), LAMBDA idx :
         emit(idx[2], l, array_load(lhs.var, mkArrayVar(r), idx[1])))

\* Lines 2610-2680, once the literals of the load and of its pointer are
\* known.
LoadTranslate(B, l, I, lhs, ptr, P) ==
  IF ptr.cls # "ptr"
  THEN [B EXCEPT !.err = "unexpected pointer operand of load instruction"]
  ELSE IF ptr = PtrNull THEN havoc(B, l, lhs.var, P)
  ELSE IF P.track_arr /\ (isInteger(I.res) \/ isBool(I.res))
  THEN IF ~lhs.isVar
       THEN [B EXCEPT !.err = "unexpected lhs of load instruction"]
       ELSE IF isUnknown(get_region(I.region)) THEN havoc(B, l, lhs.var, P)
       ELSE IF isGlobalSingleton(get_region(I.region), P.lower_singleton_aliases)
       THEN LoadSingleton(B, l, get_region(I.region), I, lhs)
       ELSE ArrayLoad(B, l, get_region(I.region), I, lhs)
  ELSE IF isPointer(I.res, P.track_ptr)
  THEN IF ~lhs.isVar
       THEN [B EXCEPT !.err = "unexpected lhs of load instruction"]
       ELSE emit(B, l, ptr_load(lhs.var, ptr.var))
  ELSE havoc(B, l, lhs.var, P)

visitLoadInst(B, l, I, P) ==
  IF ~isTracked(I.res, P.track_ptr) THEN B
  ELSE Bind(lfac_getLit(B, I.res, P), LAMBDA rl :
         IF I.op0.kind = "cexpr" THEN havoc(rl[2], l, rl[1].var, P)
         ELSE Bind(lfac_getLit(rl[2], I.op0, P), LAMBDA rp :
                LoadTranslate(rp[2], l, I, rl[1], rp[1], P)))

\* Lines 1753-1757: the memcpy between two regions.
MemCpyRegions(B, l, dst_reg, src_reg, P) ==
  IF isUnknown(dst_reg) \/ isUnknown(src_reg) THEN B
  ELSE Bind(emit(B, l, MkMemStmt("havoc", mkArrayVar(dst_reg), NoLit, NoLit)),
            LAMBDA B1 :
              IF dst_reg.type = src_reg.type
              THEN emit(B1, l, array_assign(mkArrayVar(dst_reg),
                                            mkArrayVar(src_reg)))
              ELSE B1)

\* A mutant of InitRegion: the region is found to be new whatever the set
\* holds.
InitRegionAlways(B, r) ==
  <<TRUE, [B EXCEPT !.init_regions = @ \cup {r.id}]>>

\* m_init_regions.insert(r).second and what follows it when it is true:
\* <<whether r was inserted, the builder with r in the set>>.
InitRegion(B, r) ==
  <<r.id \notin B.init_regions, [B EXCEPT !.init_regions = @ \cup {r.id}]>>

\* Lines 1766-1796: the memset of length len_ref with the value val_ref
\* into the known region r.
MemSetRegion(B, l, r, len_ref, val_ref) ==
  IF len_ref = NoLit \/ val_ref = NoLit THEN B
  ELSE IF len_ref.cls # "int" THEN B
  ELSE IF val_ref.cls \in {"int", "bool"}
  THEN Bind(InitRegion(B, r), LAMBDA ins :
         IF ins[1]
         THEN emit(ins[2], l,
                   array_init(mkArrayVar(r), len_ref, -1,
                              IF val_ref.isVar THEN val_ref
                              ELSE IntCst(val_ref.num)))
         ELSE ins[2])
  ELSE emit(B, l, MkMemStmt("havoc", mkArrayVar(r), NoLit, NoLit))

\* Lines 1759-1806: a MemSetInst of the value op1 and the length len.
MemSet(B, l, I, P) ==
  IF enabled_aggressive_array_initialization(P) /\ isInteger(I.op1)
  THEN IF isUnknown(get_region(I.region)) THEN B
       ELSE Bind(lfac_getLit(B, I.len, P), LAMBDA rl :
            Bind(lfac_getLit(rl[2], I.op1, P), LAMBDA rv :
              MemSetRegion(rv[2], l, get_region(I.region), rl[1], rv[1])))
  ELSE B

\* doMemIntrinsic, for a MemCpyInst and a MemSetInst.
doMemIntrinsic(B, l, I, P) ==
  IF ~P.track_arr THEN B
  ELSE IF I.op = "memset" THEN MemSet(B, l, I, P)
  ELSE MemCpyRegions(B, l, get_region(I.dst_reg), get_region(I.src_reg), P)

\* m_bb.ptr_new_object(lhs->getVar(), m_object_id++).
NewObject(B, l, lhs) ==
  emit([B EXCEPT !.m_object_id = @ + 1], l, ptr_new_object(lhs, B.m_object_id))

\* doAllocFn (lines 1707-1736): a call of an allocation function.
doAllocFn(B, l, I, P) ==
  IF I.res = NoValue THEN B
  ELSE Bind(lfac_getLit(B, I.res, P), LAMBDA ref :
         IF isPointer(I.res, P.track_ptr)
         THEN NewObject(ref[2], l, ref[1].var)
         ELSE IF isTracked(I.res, P.track_ptr)
         THEN havoc(ref[2], l, ref[1].var, P)
         ELSE ref[2])

\* Lines 1829-1841: the initializer of a singleton region; two_args says
\* that the call is verifier.int_initializer(v, k) and ref is then the
\* literal of k.
InitSingleton(B, l, r, ty, two_args, ref) ==
  IF ty.kind = "int"
  THEN emit(B, l, MkMemStmt("assign", mkArraySingletonVar(r),
                            IntCst(IF two_args /\ ~ref.isVar THEN ref.num ELSE 0),
                            NoLit))
  ELSE IF ty.kind = "bool"
  THEN emit(B, l, MkMemStmt("bool_assign", mkArraySingletonVar(r),
                            BoolCst(two_args /\ ~ref.isVar /\ ref.num = 1),
                            NoLit))
  ELSE B

\* Lines 1842-1883: the initializer of the array of a region.
InitArray(B, l, r, ty, two_args, ref) ==
  IF two_args /\ ref.cls \notin {"int", "bool"}
  THEN [B EXCEPT !.err =
          "second argument of verifier.int_initializer must be int or bool"]
  ELSE
    IF ty.kind \in {"int", "bool"}
    THEN Bind(InitRegion(B, r), LAMBDA ins :
           IF ins[1]
           THEN emit(ins[2], l,
                     array_init(mkArrayVar(r),
                                IntCst(IF ty.kind = "bool" THEN 0
                                       ELSE (ty.w \div 8) - 1),
                                0, IntCst(IF two_args THEN ref.num ELSE 0)))
           ELSE ins[2])
    ELSE IF ty.kind \in {"int_array", "bool_array"}
    THEN IF ty.n = 0 THEN B
         ELSE Bind(InitRegion(B, r), LAMBDA ins :
                IF ins[1]
                THEN emit(ins[2], l,
                          array_init(mkArrayVar(r),
                                     IntCst(ty.n * ty.elem_size - 1), 0,
                                     IntCst(IF two_args THEN ref.num ELSE 0)))
                ELSE ins[2])
    ELSE B

\* doInitializer: verifier.zero_initializer(v) or
\* verifier.int_initializer(v, k), with the pointee type ty of v, the region
\* of v and k as op1.
doInitializer(B, l, I, P) ==
  IF isUnknown(get_region(I.region)) THEN B
  ELSE Bind(IF I.op1 # NoValue THEN lfac_getLit(B, I.op1, P) ELSE <<NoLit, B>>,
            LAMBDA rr :
              IF I.op1 # NoValue /\ rr[1] = NoLit THEN rr[2]
              ELSE IF isGlobalSingleton(get_region(I.region),
                                        P.lower_singleton_aliases)
              THEN InitSingleton(rr[2], l, get_region(I.region), I.ty,
                                 I.op1 # NoValue, rr[1])
              ELSE InitArray(rr[2], l, get_region(I.region), I.ty,
                             I.op1 # NoValue, rr[1]))

\* Lines 2696-2733: the initialization of the region of an alloca; ty is
\* the allocated type.
AllocaInit(B, l, r, ty) ==
  IF isUnknown(r) THEN B
  ELSE IF ty.kind \in {"pointer", "array", "vector"}
          /\ (IF ty.kind = "pointer" THEN 1
              ELSE IF ty.kind = "array" THEN ty.n ELSE 0) > 0
  THEN Bind(InitRegion(B, r), LAMBDA ins :
         IF ins[1] /\ ty.elem_size > 0
         THEN emit(ins[2], l,
                   array_init(mkArrayVar(r),
                              IntCst((IF ty.kind = "pointer" THEN 1 ELSE ty.n)
                                     * ty.elem_size - 1),
                              0, IntCst(0)))
         ELSE ins[2])
  ELSE B

visitAllocaInst(B, l, I, P) ==
  IF ~isTracked(I.res, P.track_ptr) THEN B
  ELSE Bind(IF isPointer(I.res, P.track_ptr)
            THEN Bind(lfac_getLit(B, I.res, P), LAMBDA lhs :
                   NewObject(lhs[2], l, lhs[1].var))
            ELSE B,
            LAMBDA B1 :
              IF enabled_array_initialization(P)
              THEN AllocaInit(B1, l, get_region(I.region), I.ty)
              ELSE B1)

ShouldCallSiteReturn(I, P) ==
  /\ I.direct
  /\ I.callee.retTy # NoValue
  /\ isTrackedType(I.callee.retTy, P.track_ptr)

DoesCallSiteReturn(I, P) ==
  I.res # NoValue /\ isTracked(I.res, P.track_ptr)

\* Lines 2819-2824: the regions from the i-th on are havocked.
RECURSIVE HavocRegions(_, _, _, _, _)
HavocRegions(B, l, regions, i, P) ==
  IF i > Len(regions) THEN B
  ELSE HavocRegions(emit(B, l, MkMemStmt("havoc", RegionVar(regions[i], P),
                                         NoLit, NoLit)),
                    l, regions, i + 1, P)

\* Lines 2809-2834: the call of an external or vararg function, or any call
\* of an intraprocedural translation.
CallExternal(B, l, I, P) ==
  Bind(IF DoesCallSiteReturn(I, P) /\ ShouldCallSiteReturn(I, P)
       THEN Bind(lfac_getLit(B, I.res, P),
                 LAMBDA r : havoc(r[2], l, r[1].var, P))
       ELSE B,
       LAMBDA B1 : IF P.track_arr
                   THEN HavocRegions(B1, l, get_modified_regions(I), 1, P)
                   ELSE B1)

\* Lines 2852-2856: the actual parameters from the i-th on; S holds the
\* builder, the inputs and the outputs of the call site.
RECURSIVE CallActuals(_, _, _, _, _)
CallActuals(S, l, args, i, P) ==
  IF i > Len(args) \/ S.B.err # "" THEN S
  ELSE IF ~isTracked(args[i], P.track_ptr) THEN CallActuals(S, l, args, i + 1, P)
  ELSE Bind(normalizeFuncParamOrRet(S.B, l, args[i], P), LAMBDA r :
         CallActuals([S EXCEPT !.B = r[2],
                               !.inputs = Append(@, MkVar(r[1], VarType(args[i])))],
                     l, args, i + 1, P))

\* Lines 2859-2888: the return value of the call site.
CallReturn(S, I, P) ==
  IF ShouldCallSiteReturn(I, P)
  THEN IF DoesCallSiteReturn(I, P)
       THEN Bind(lfac_getLit(S.B, I.res, P), LAMBDA r :
              [S EXCEPT !.B = r[2],
                        !.outputs = Append(@, MkVar(r[1].var, r[1].cls))])
       ELSE IF isBool(I.callee.retTy) \/ isInteger(I.callee.retTy)
               \/ isPointer(I.callee.retTy, P.track_ptr)
       THEN Bind(mkFreshVar(S.B), LAMBDA t :
              [S EXCEPT !.B = t[2],
                        !.outputs = Append(@, MkVar(t[1], VarType(I.callee.retTy)))])
       ELSE S
  ELSE IF DoesCallSiteReturn(I, P)
  THEN [S EXCEPT !.B.err =
          "Unexpected type mismatch between callsite and function signature"]
  ELSE S

\* Lines 2904-2911: the regions from the i-th on are added to the inputs.
RECURSIVE CallOnlyReads(_, _, _, _)
CallOnlyReads(S, onlyreads, i, P) ==
  IF i > Len(onlyreads) THEN S
  ELSE CallOnlyReads([S EXCEPT !.inputs = Append(@, RegionVar(onlyreads[i], P))],
                     onlyreads, i + 1, P)

\* Lines 2914-2935.
RECURSIVE CallMods(_, _, _, _, _)
CallMods(S, mods, news, i, P) ==
  IF i > Len(mods) THEN S
  ELSE IF InVector(news, mods[i]) THEN CallMods(S, mods, news, i + 1, P)
  ELSE CallMods([S EXCEPT !.inputs = Append(@, RegionVar(mods[i], P)),
                          !.outputs = Append(@, RegionVar(mods[i], P))],
                mods, news, i + 1, P)

\* Lines 2937-2939.
RECURSIVE CallNews(_, _, _)
CallNews(S, news, i) ==
  IF i > Len(news) THEN S
  ELSE CallNews([S EXCEPT !.outputs = Append(@, mkArrayVar(news[i]))],
                news, i + 1)

\* Lines 2890-2940.
CallArrays(S, I, P) ==
  IF ~P.track_arr THEN S
  ELSE CallNews(CallMods(CallOnlyReads(S, get_read_only_regions(I), 1, P),
                         get_modified_regions(I), get_new_regions(I), 1, P),
                get_new_regions(I), 1)

\* Lines 2849-2943: the call of a defined function.
CallSite(B, l, I, P) ==
  Bind(CallActuals([B |-> B, inputs |-> <<>>, outputs |-> <<>>], l, I.args, 1, P),
       LAMBDA S1 :
         IF S1.B.err # "" THEN S1.B
         ELSE Bind(CallReturn(S1, I, P), LAMBDA S2 :
                IF S2.B.err # "" THEN S2.B
                ELSE Bind(CallArrays(S2, I, P), LAMBDA S3 :
                       emit(S3.B, l, callsite(I.callee.name, S3.outputs,
                                              S3.inputs)))))

\* visitCallInst, from line 2801 on.
visitCallInst(B, l, I, P) ==
  IF I.callee.isDeclaration \/ I.callee.isVarArg \/ ~P.interprocedural
  THEN CallExternal(B, l, I, P)
  ELSE CallSite(B, l, I, P)

\* The visit of one instruction.
visitInst(B, l, I, P) ==
  CASE I.op = "gep" -> visitGetElementPtrInst(B, l, I, P)
    [] I.op = "store" -> visitStoreInst(B, l, I, P)
    [] I.op = "load" -> visitLoadInst(B, l, I, P)
    [] I.op \in {"memcpy", "memset"} -> doMemIntrinsic(B, l, I, P)
    [] I.op = "select" -> visitSelectInst(B, l, I, P)
    [] I.op = "alloca" -> visitAllocaInst(B, l, I, P)
    [] I.op = "allocfn" -> doAllocFn(B, l, I, P)
    [] I.op = "initializer" ->
         IF enabled_array_initialization(P) THEN doInitializer(B, l, I, P)
         ELSE visitCallInst(B, l, I, P)
    [] I.op = "call" -> visitCallInst(B, l, I, P)
    [] OTHER -> visitBinaryOperator(B, l, I, P)

\* CrabInstVisitor::visit(B): the instructions of the block from the i-th on.
RECURSIVE visitInsts(_, _, _, _, _)
visitInsts(B, l, insts, i, P) ==
  IF i > Len(insts) THEN B
  ELSE Bind(visitInst(B, l, insts[i], P),
            LAMBDA B1 : visitInsts(B1, l, insts, i + 1, P))

(***************************************************************************)
(* exec_edge: <<the builder, the label of the block created for the edge   *)
(* or "" for nullptr>>.  src is a source block, dst the name of one.       *)
(***************************************************************************)
make_crab_edge_label(B, src, dst) ==
  [B EXCEPT !.m_id = @ + 1,
            !.m_edge_to_crab_map =
               IF <<src, dst>> \in DOMAIN @ THEN @
               ELSE MapInsert(@, <<src, dst>>, EdgeLabel(B.m_id + 1))]

\* Lines 3177-3184: the block bb for the edge is made and put between the
\* blocks of src and dst.
SpliceEdge(B, src, dst, bb) ==
  [make_crab_edge_label(B, src, dst) EXCEPT !.m_cfg =
     add_block_in_between(cfg_insert(@, bb), B.m_node_to_crab_map[src],
                          B.m_node_to_crab_map[dst], bb)]

\* bool isNegated = (br->getSuccessor(1) == &dst).
IsNegatedEdge(br, dst) == br.succs[2] = dst

\* Lines 3198-3212: the constraint of the comparison CI is assumed in bb.
AssumeCmp(B, P, CI, isNegated, bb) ==
  IF isBool(CI.op0) /\ isBool(CI.op1) THEN B
  ELSE IF isInteger(CI.op0) /\ isInteger(CI.op1)
  THEN Bind(cmpInstToCrabInt(CI, B.cache, P.enable_bignums, isNegated),
            LAMBDA r : IF r[1] # NoCst
                       THEN emit([B EXCEPT !.cache = r[2]], bb, assume(r[1]))
                       ELSE [B EXCEPT !.cache = r[2]])
  ELSE IF isPointer(CI.op0, P.track_ptr) /\ isPointer(CI.op1, P.track_ptr)
  THEN Bind(cmpInstToCrabPtr(CI, B.cache, P.enable_bignums, isNegated),
            LAMBDA r : IF r[1] # NoCst
                       THEN emit([B EXCEPT !.cache = r[2]], bb, ptr_assume(r[1]))
                       ELSE [B EXCEPT !.cache = r[2]])
  ELSE B

\* Lines 3224-3232: the condition c is assumed in bb as a boolean.
AssumeBool(B, P, c, isNegated, bb) ==
  Bind(lfac_getLit(B, c, P), LAMBDA r :
    IF ~(r[1].isVar /\ r[1].cls = "bool")
    THEN [B EXCEPT !.err = "assert(lhs && lhs->isVar())"]
    ELSE IF isNegated THEN emit(r[2], bb, bool_not_assume(r[1].var))
    ELSE emit(r[2], bb, bool_assume(r[1].var)))

\* Lines 3186-3233: the block bb of the edge to dst is populated.
PopulateEdge(B, P, br, dst, bb) ==
  LET c == br.cond
      isNegated == IsNegatedEdge(br, dst)
      lower_cond_as_bool ==
        IF br.cmp = NoCmp THEN TRUE
        ELSE (isBool(br.cmp.op0) /\ isBool(br.cmp.op1)) \/ br.uses >= 2
  IN  IF c.kind = "cint"
      THEN IF (c.bits = 1 /\ br.succs[1] # dst) \/ (c.bits = 0 /\ br.succs[2] # dst)
           THEN emit(B, bb, unreachable_stmt)
           ELSE B
      ELSE IF c.kind = "cexpr" THEN B
      ELSE Bind(IF br.cmp = NoCmp THEN B
                ELSE AssumeCmp(B, P, br.cmp, isNegated, bb),
                LAMBDA B1 : IF lower_cond_as_bool
                            THEN AssumeBool(B1, P, c, isNegated, bb)
                            ELSE B1)

exec_edge(B, P, src, dst) ==
  IF src.term.op = "condbr"
  THEN Bind(SpliceEdge(B, src.name, dst, EdgeLabel(B.m_id + 1)), LAMBDA B1 :
         <<PopulateEdge(B1, P, src.term, dst, EdgeLabel(B.m_id + 1)),
           EdgeLabel(B.m_id + 1)>>)
  ELSE IF src.term.op \in {"br", "switch"} THEN <<add_edge(B, src.name, dst), "">>
  ELSE <<B, "">>

(***************************************************************************)
(* build_cfg.                                                              *)
(***************************************************************************)
\* Lines 3290-3292.
RECURSIVE AddBlocks(_, _, _)
AddBlocks(B, f, i) ==
  IF i > Len(f.blocks) THEN B
  ELSE Bind(add_block(B, f.blocks[i].name), LAMBDA B1 : AddBlocks(B1, f, i + 1))

\* Lines 3345-3348: the PHI nodes of dst are translated into the block l.
VisitPhis(B, P, f, src, dst, l) ==
  Bind(visitBasicBlock(PhisOnEdge(f, src, dst), B.m_cfg.blocks[l], B.n, B.cache,
                       P.enable_bignums, P.track_ptr),
       LAMBDA v : [B EXCEPT !.m_cfg.blocks[l] = v.stmts,
                            !.n = v.n,
                            !.cache = v.cache,
                            !.err = IF v.err THEN "unexpected PHI node" ELSE @])

\* Lines 3340-3349: the successors of src from the i-th on.
RECURSIVE EdgeLoop(_, _, _, _, _, _)
EdgeLoop(B, P, f, src, succs_vector, i) ==
  IF i > Len(succs_vector) THEN B
  ELSE
    Bind(exec_edge(B, P, src, succs_vector[i]), LAMBDA r :
    Bind(VisitPhis(r[1], P, f, src.name, succs_vector[i],
                   IF r[2] # "" THEN r[2] ELSE r[1].m_node_to_crab_map[src.name]),
         LAMBDA B2 : EdgeLoop(B2, P, f, src, succs_vector, i + 1)))

\* A mutant of ReturnBlock: a second block with a return replaces the first
\* as the exit.
ReturnBlockAgain(S, P, b, bb) ==
  [S EXCEPT !.B.m_cfg = cfg_set_exit(@, bb), !.ret_block = bb]

\* A mutant of ReturnBlock: the block of the return is not made the exit.
ReturnBlockNoExit(S, P, b, bb) ==
  [S EXCEPT !.ret_block = bb]

\* Lines 3313-3332: S holds the builder, ret_block and ret_val.
ReturnBlock(S, P, b, bb) ==
  IF S.ret_block # ""
  THEN [S EXCEPT !.B.err = "UnifyFunctionExitNodes pass should be run first"]
  ELSE
    IF P.interprocedural /\ b.term.val # NoValue
       /\ isTracked(b.term.val, P.track_ptr)
    THEN Bind(normalizeFuncParamOrRet([S.B EXCEPT !.m_cfg = cfg_set_exit(@, bb)],
                                      bb, b.term.val, P),
              LAMBDA r : [B |-> emit(r[2], bb, ret_stmt(r[1])),
                          ret_block |-> bb, ret_val |-> r[1]])
    ELSE [S EXCEPT !.B.m_cfg = cfg_set_exit(@, bb), !.ret_block = bb]

\* CrabInstVisitor::CrabInstVisitor: the visitor of a block starts with the
\* object id 0 and with the function's set of initialized regions.
CrabInstVisitor(B) == [B EXCEPT !.m_object_id = 0]

\* Lines 3300-3351: the blocks of f from the i-th on.  An error ends the
\* translation where it is raised.
RECURSIVE BlockLoop(_, _, _, _)
BlockLoop(S, P, f, i) ==
  IF i > Len(f.blocks) \/ S.B.err # "" THEN S
  ELSE
    LET b == f.blocks[i]
        bb == S.B.m_node_to_crab_map[b.name]
        succs_vector == IF b.term.op = "switch"
                        THEN Append(succs(b), b.term.succs[1])
                        ELSE succs(b)
    IN  Bind(visitInsts(CrabInstVisitor(S.B), bb, b.insts, 1, P), LAMBDA B1 :
        Bind(IF b.term.op = "ret"
             THEN ReturnBlock([S EXCEPT !.B = B1], P, b, bb)
             ELSE [S EXCEPT !.B = EdgeLoop(B1, P, f, b, succs_vector, 1)],
             LAMBDA S1 : BlockLoop(S1, P, f, i + 1)))

\* A mutant of DeclInput: an argument is never renamed.
DeclInputKeep(D, arg, lit, ret_val) ==
  [D EXCEPT !.inputs = Append(@, lit.var)]

\* Lines 3426-3448: the argument arg, with its literal lit, is added to the
\* inputs of D, which holds the builder and the inputs so far.
DeclInput(D, arg, lit, ret_val) ==
  IF ret_val # "" /\ lit.var = ret_val
  THEN Bind(mkFreshVar(D.B), LAMBDA t :
         CASE lit.cls = "bool" ->
                [B |-> emit(t[2], D.B.m_cfg.entry, bool_assign(t[1], lit)),
                 inputs |-> Append(D.inputs, t[1])]
           [] lit.cls = "int" ->
                [B |-> emit(t[2], D.B.m_cfg.entry, assign(t[1], lit)),
                 inputs |-> Append(D.inputs, t[1])]
           [] lit.cls = "ptr" ->
                [B |-> emit(t[2], D.B.m_cfg.entry, ptr_assign(t[1], lit, 0)),
                 inputs |-> Append(D.inputs, t[1])]
           [] OTHER -> [D EXCEPT !.B.err = "unexpected function parameter type"])
  ELSE [D EXCEPT !.inputs = Append(@, lit.var)]

\* Lines 3423-3449: the arguments of f from the i-th on.
RECURSIVE DeclInputs(_, _, _, _, _)
DeclInputs(D, P, f, ret_val, i) ==
  IF i > Len(f.args) THEN D
  ELSE IF ~isTracked(f.args[i], P.track_ptr)
  THEN DeclInputs(D, P, f, ret_val, i + 1)
  ELSE Bind(lfac_getLit(D.B, f.args[i], P), LAMBDA r :
       Bind(DeclInput([D EXCEPT !.B = r[2]], f.args[i], r[1], ret_val),
            LAMBDA D1 : DeclInputs(D1, P, f, ret_val, i + 1)))

\* Lines 3399-3415: the return value of a function that has none.
DeclRetVal(S, P, f) ==
  IF S.ret_val = "" /\ f.retTy # NoValue /\ isTrackedType(f.retTy, P.track_ptr)
  THEN Bind(mkFreshVar(S.B), LAMBDA t : [B |-> t[2], ret_val |-> t[1]])
  ELSE [B |-> S.B, ret_val |-> S.ret_val]

\* Lines 3465-3472: the read-only regions from the i-th on; A holds the
\* builder, the inputs, the outputs and the variables of the regions.
RECURSIVE DeclOnlyReads(_, _, _, _)
DeclOnlyReads(A, onlyreads, i, P) ==
  IF i > Len(onlyreads) THEN A
  ELSE DeclOnlyReads(
         [A EXCEPT !.inputs = Append(@, RegionVar(onlyreads[i], P).name),
                   !.array_params = @ \cup {RegionVar(onlyreads[i], P)}],
         onlyreads, i + 1, P)

\* Lines 3478-3524: the modified region a gets a fresh input version a_in,
\* which the entry block copies into the variable of the region.
DeclMod(A, a, P) ==
  Bind(mkFreshVar(A.B), LAMBDA t :
    IF isGlobalSingleton(a, P.lower_singleton_aliases)
    THEN [B |-> emit_front(t[2], A.B.m_cfg.entry,
                           MkMemStmt(IF a.type = "INT_REGION" THEN "assign"
                                     ELSE "bool_assign",
                                     mkArraySingletonVar(a),
                                     MkLit(mkArraySingletonVar(a).type, TRUE, t[1], 0),
                                     NoLit)),
          inputs |-> Append(A.inputs, t[1]),
          outputs |-> Append(A.outputs, mkArraySingletonVar(a).name),
          array_params |-> A.array_params
                             \cup {MkVar(t[1], mkArraySingletonVar(a).type),
                                   mkArraySingletonVar(a)}]
    ELSE [B |-> emit_front(t[2], A.B.m_cfg.entry,
                           array_assign(mkArrayVar(a),
                                        MkVar(t[1], mkArrayVar(a).type))),
          inputs |-> Append(A.inputs, t[1]),
          outputs |-> Append(A.outputs, mkArrayVar(a).name),
          array_params |-> A.array_params
                             \cup {MkVar(t[1], mkArrayVar(a).type), mkArrayVar(a)}])

\* Lines 3475-3525.
RECURSIVE DeclMods(_, _, _, _, _)
DeclMods(A, mods, news, i, P) ==
  IF i > Len(mods) THEN A
  ELSE IF InVector(news, mods[i]) THEN DeclMods(A, mods, news, i + 1, P)
  ELSE DeclMods(DeclMod(A, mods[i], P), mods, news, i + 1, P)

\* Lines 3528-3530.
RECURSIVE DeclNews(_, _, _)
DeclNews(A, news, i) ==
  IF i > Len(news) THEN A
  ELSE DeclNews([A EXCEPT !.outputs = Append(@, mkArrayVar(news[i]).name),
                          !.array_params = @ \cup {mkArrayVar(news[i])}],
                news, i + 1)

\* Lines 3452-3531: the array parameters; f carries the regions the heap
\* abstraction reports for it.
DeclArrays(A, P, f) ==
  IF ~(P.track_arr /\ f.name # "main") THEN A
  ELSE DeclNews(DeclMods(DeclOnlyReads(A, get_read_only_regions(f), 1, P),
                         get_modified_regions(f), get_new_regions(f), 1, P),
                get_new_regions(f), 1)

\* Lines 3371-3557.
AddFunctionDecl(S, P, f) ==
  IF ~(P.interprocedural /\ ~f.isVarArg) THEN S.B
  ELSE
    Bind(DeclRetVal(S, P, f), LAMBDA R :
    Bind(DeclInputs([B |-> R.B, inputs |-> <<>>], P, f, R.ret_val, 1), LAMBDA D :
    Bind(DeclArrays([B |-> D.B, inputs |-> D.inputs,
                     outputs |-> IF R.ret_val # "" THEN <<R.ret_val>> ELSE <<>>,
                     array_params |-> {}], P, f), LAMBDA A :
      IF {A.inputs[j] : j \in 1 .. Len(A.inputs)}
           \cap {A.outputs[j] : j \in 1 .. Len(A.outputs)} # {}
      THEN [A.B EXCEPT !.err = "function inputs and outputs should not intersect"]
      ELSE [A.B EXCEPT !.m_cfg.decl =
              [set |-> TRUE, name |-> f.name, inputs |-> A.inputs,
               outputs |-> A.outputs, array_params |-> A.array_params]])))

HasUnreachableInst(b) == b.term.op = "unreachable"

\* A mutant of ConnectSinks: every block without successors that is not the
\* exit is connected, with or without an unreachable instruction.
ConnectAllSinks(B, f, i) ==
  [B EXCEPT !.m_cfg.edges =
     @ \cup {<<B.m_node_to_crab_map[f.blocks[j].name], B.m_cfg.exit>> :
               j \in {k \in i .. Len(f.blocks) :
                        /\ B.m_node_to_crab_map[f.blocks[k].name] # B.m_cfg.exit
                        /\ NextBlocks(B.m_cfg,
                                      B.m_node_to_crab_map[f.blocks[k].name]) = {}}}]

\* Lines 3567-3581: the blocks of f from the i-th on.
RECURSIVE ConnectSinks(_, _, _)
ConnectSinks(B, f, i) ==
  IF i > Len(f.blocks) THEN B
  ELSE
    Bind(IF B.m_node_to_crab_map[f.blocks[i].name] # B.m_cfg.exit
            /\ NextBlocks(B.m_cfg, B.m_node_to_crab_map[f.blocks[i].name]) = {}
            /\ HasUnreachableInst(f.blocks[i])
         THEN [B EXCEPT !.m_cfg =
                 cfg_add_edge(@, B.m_node_to_crab_map[f.blocks[i].name],
                              B.m_cfg.exit)]
         ELSE B,
         LAMBDA B1 : ConnectSinks(B1, f, i + 1))

\* Lines 3588-3600.
ExitOfSelfLoop(B, f) ==
  LET entry == f.blocks[1]
  IN  IF Len(succs(entry)) = 1
      THEN LET succ == BlockOf(f, succs(entry)[1])
           IN  IF Len(succs(succ)) = 1 /\ succs(succ)[1] = succ.name
               THEN [B EXCEPT !.m_cfg =
                       cfg_set_exit(@, B.m_node_to_crab_map[succ.name])]
               ELSE B
      ELSE B

\* Lines 3602-3619: the first block with an unreachable instruction.
ExitOfUnreachable(B, f) ==
  LET I == {i \in 1 .. Len(f.blocks) : HasUnreachableInst(f.blocks[i])}
  IN  IF B.m_cfg.has_exit \/ I = {} THEN B
      ELSE LET i == CHOOSE j \in I : \A k \in I : j <= k
           IN  [B EXCEPT !.m_cfg =
                  cfg_set_exit(@, B.m_node_to_crab_map[f.blocks[i].name])]

\* Lines 3621-3631: the blocks of f from the i-th on.
RECURSIVE ExitOfNoSuccessors(_, _, _)
ExitOfNoSuccessors(B, f, i) ==
  IF i > Len(f.blocks) THEN B
  ELSE
    Bind(IF NextBlocks(B.m_cfg, B.m_node_to_crab_map[f.blocks[i].name]) = {}
         THEN [B EXCEPT !.m_cfg =
                 cfg_set_exit(@, B.m_node_to_crab_map[f.blocks[i].name])]
         ELSE B,
         LAMBDA B1 : ExitOfNoSuccessors(B1, f, i + 1))

\* A mutant of FindExit: the search for a block without successors is run
\* whatever the earlier rules have found.
FindExitAnyOrder(B, f) ==
  IF B.m_cfg.has_exit THEN ConnectSinks(B, f, 1)
  ELSE ExitOfNoSuccessors(ExitOfUnreachable(ExitOfSelfLoop(B, f), f), f, 1)

\* Lines 3559-3632.
FindExit(B, f) ==
  IF B.m_cfg.has_exit THEN ConnectSinks(B, f, 1)
  ELSE Bind(ExitOfUnreachable(ExitOfSelfLoop(B, f), f), LAMBDA B2 :
         IF B2.m_cfg.has_exit THEN B2 ELSE ExitOfNoSuccessors(B2, f, 1))

\* Lines 3280-3632: the translation of f into the graph of B.
Translate(B, P, f) ==
  Bind(AddBlocks([B EXCEPT !.m_is_cfg_built = TRUE], f, 1), LAMBDA B1 :
  Bind(BlockLoop([B |-> B1, ret_block |-> "", ret_val |-> ""], P, f, 1), LAMBDA S :
    IF S.B.err # "" THEN S.B
    ELSE Bind(AddFunctionDecl(S, P, f), LAMBDA B2 :
           IF B2.err # "" THEN B2 ELSE FindExit(B2, f))))

\* A mutant of build_cfg: the translation is run again on a built graph.
build_cfg_again(B, P, f) == Translate(B, P, f)

\* build_cfg, without the dead code elimination and the simplification of
\* the graph that the crab library runs after it when asked (lines
\* 3634-3646).
build_cfg(B, P, f) ==
  IF B.m_is_cfg_built THEN B ELSE Translate(B, P, f)

\* get_cfg: <<the graph returned, the builder>>.
get_cfg(B, P, f) ==
  Bind(build_cfg(B, P, f), LAMBDA B1 : <<B1.m_cfg, B1>>)

(***************************************************************************)
(* The meaning of the statements the PHI visitor emits: a step of an       *)
(* environment that maps variable names to values.                         *)
(***************************************************************************)
LitVal(lit, env) == IF lit.isVar THEN env[lit.var] ELSE lit.num

\* The environments a statement may lead to from env; havoc gives the
\* variable any value.
ExecStmt(st, env, dom) ==
  CASE st.op \in {"assign", "bool_assign", "ptr_assign"} ->
         {[env EXCEPT ![st.lhs] = LitVal(st.a, env)]}
    [] st.op = "ptr_null" -> {[env EXCEPT ![st.lhs] = 0]}
    [] st.op = "havoc" -> {[env EXCEPT ![st.lhs] = d] : d \in dom}
    [] OTHER -> {env}

(***************************************************************************)
(* State.                                                                  *)
(***************************************************************************)
VARIABLES
  enable_bignums,  \* CrabBuilderParams::enable_bignums
  fn_values,       \* the source values of the function under translation
  m_lit_cache,     \* crabLitFactoryImpl::m_lit_cache
  lit_rets,        \* per value, the literals getLit has returned for it
  lit_calls,       \* per value, the number of getLit calls on it
  cmp_I,           \* the comparison instruction being normalised
  cmp_orig,        \* that instruction as it was in the source
  cmp_n,           \* the number of normalizeCmpInst calls on it
  track_ptr,       \* CrabBuilderParams::track_pointers()
  vfac_n,          \* the number of fresh names the variable factory made
  phi_BB,          \* the PHI nodes of a destination block, for one edge
  phi_stmts,       \* the statements the PHI visitor appended to m_bb
  phi_pre,         \* the values of the variables before those statements
  phi_env,         \* the values of the variables while they execute
  phi_ip,          \* 0 before the visit, then the next statement to execute
  m_params,        \* CrabBuilderManager::m_params
  m_func,          \* CfgBuilderImpl::m_func of the builder under study
  m_builder,       \* that builder (CfgBuilderImpl)
  bld_calls,       \* the number of build_cfg and get_cfg calls on it
  bld_rets,        \* the graphs get_cfg has returned
  man_funcs,       \* the functions of the module given to the manager
  m_cfg_builder_map, \* CrabBuilderManager::m_cfg_builder_map
  man_next_id,     \* the number of builders the manager has created
  man_calls,       \* per function, the number of mk_cfg_builder requests
  man_rets,        \* per function, the builders those requests returned
  man_translated   \* per function, how often its graph was translated

litVars == <<enable_bignums, fn_values, m_lit_cache, lit_rets, lit_calls>>

cmpVars == <<cmp_I, cmp_orig, cmp_n>>

phiVars == <<track_ptr, vfac_n, phi_BB, phi_stmts, phi_pre, phi_env, phi_ip>>

phiBlockVars == <<phi_BB, phi_stmts, phi_pre, phi_env, phi_ip>>

bldVars == <<m_func, m_builder, bld_calls, bld_rets>>

manVars == <<man_funcs, m_cfg_builder_map, man_next_id, man_calls, man_rets,
             man_translated>>

vars == <<litVars, cmpVars, phiVars, m_params, bldVars, manVars>>

\* The parts of the state a specification does not use.
IdleLit ==
  /\ enable_bignums = FALSE
  /\ fn_values = {}
  /\ m_lit_cache = EmptyCache
  /\ lit_rets = EmptyCache
  /\ lit_calls = EmptyCache

IdleCmp ==
  /\ cmp_I = MkCmp("ICMP_EQ", NoLit, NoLit)
  /\ cmp_orig = cmp_I
  /\ cmp_n = 0

IdlePhiBlock ==
  /\ track_ptr = FALSE
  /\ phi_BB = <<>>
  /\ phi_stmts = <<>>
  /\ phi_pre = EmptyCache
  /\ phi_env = EmptyCache
  /\ phi_ip = 0

IdlePhi == vfac_n = 0 /\ IdlePhiBlock

IdleBld ==
  /\ m_func = MkFunction("", <<>>, NoValue, FALSE, <<>>)
  /\ m_builder = EmptyCache
  /\ bld_calls = 0
  /\ bld_rets = {}

IdleMan ==
  /\ man_funcs = {}
  /\ m_cfg_builder_map = EmptyCache
  /\ man_next_id = 0
  /\ man_calls = EmptyCache
  /\ man_rets = EmptyCache
  /\ man_translated = EmptyCache

IdleParams == m_params = MkParams(FALSE, FALSE, FALSE, FALSE)

(***************************************************************************)
(* The literal factory on its own: one translation's getLit calls.         *)
(***************************************************************************)
InitLit ==
  /\ enable_bignums \in BOOLEAN
  /\ fn_values \in {{a, b} : a \in Values, b \in FewValues}
  /\ m_lit_cache = EmptyCache
  /\ lit_rets = [v \in fn_values |-> {}]
  /\ lit_calls = [v \in fn_values |-> 0]
  /\ IdleCmp
  /\ IdlePhi
  /\ IdleParams
  /\ IdleBld
  /\ IdleMan

GetLit(v) ==
  /\ lit_calls[v] < MaxCalls
  /\ LET r == getLit(m_lit_cache, v, enable_bignums)
     IN  /\ m_lit_cache' = r[2]
         /\ lit_rets' = [lit_rets EXCEPT ![v] = @ \cup {r[1]}]
  /\ lit_calls' = [lit_calls EXCEPT ![v] = @ + 1]
  /\ UNCHANGED <<enable_bignums, fn_values, cmpVars, phiVars, m_params, bldVars, manVars>>

NextLit == \E v \in fn_values : GetLit(v)

SpecLit == InitLit /\ [][NextLit]_vars

\* The signed value of an integer constant lies outside the word's range.
OutOfWord(v) ==
  SignedVal(v.w, v.bits) \notin SignedMinWord .. SignedMaxWord

\* C7: getLit is idempotent and referentially stable: all calls on one value
\* return the same literal (a value without a literal keeps having none), and
\* a step never replaces or removes an entry of the cache.
C7_GetLitStable ==
  [][ /\ \A v \in fn_values : Cardinality(lit_rets'[v]) <= 1
      /\ \A v \in DOMAIN m_lit_cache :
            v \in DOMAIN m_lit_cache' /\ m_lit_cache'[v] = m_lit_cache[v] ]_vars

\* Both values were asked for twice, one is cached next to the other's
\* entry or absence, and one of them has no literal.
C7_Witness ==
  \E v \in fn_values : \E u \in fn_values \ {v} :
    /\ lit_calls[v] = MaxCalls /\ lit_calls[u] = MaxCalls
    /\ v \in DOMAIN m_lit_cache
    /\ lit_rets[u] = {NoLit}

\* C8 as stated: the class of the literal follows from the type alone: every
\* boolean value yields a BoolLiteral, every integer value an IntLiteral,
\* every pointer value a PointerLiteral, every other value none.
C8_ClassByTypeAlways ==
  \A v \in fn_values : \A l \in lit_rets[v] :
    /\ isBool(v) => l.cls = "bool"
    /\ isInteger(v) => l.cls = "int"
    /\ isPointerTy(v) => l.cls = "ptr"
    /\ v.tyk = "other" => l = NoLit

\* C8 amended: a literal, when there is one, has the class of the value's
\* type, and there is none exactly for a value of another type, a constant
\* expression, and an integer constant outside the word's range while
\* bignums are disabled.
C8_ClassByType ==
  \A v \in fn_values : \A l \in lit_rets[v] :
    /\ l # NoLit =>
         /\ isBool(v) => l.cls = "bool"
         /\ isInteger(v) => l.cls = "int"
         /\ isPointerTy(v) => l.cls = "ptr"
    /\ l = NoLit <=>
         \/ v.tyk = "other"
         \/ v.kind = "cexpr"
         \/ v.kind = "cint" /\ isInteger(v) /\ ~enable_bignums /\ OutOfWord(v)

\* getLit has answered for a pointer variable and for a constant expression
\* of integer type.
C8_Witness ==
  \E v \in fn_values : \E u \in fn_values :
    /\ v.kind = "var" /\ isPointerTy(v) /\ lit_rets[v] # {}
    /\ u.kind = "cexpr" /\ isInteger(u) /\ lit_rets[u] # {}

\* C9: an integer constant outside the word's signed range yields no literal
\* with bignums disabled and the IntLiteral of exactly its signed value with
\* bignums enabled; a constant inside the range, of whatever width, always
\* yields the IntLiteral of its value.
C9_BignumPolicy ==
  \A v \in fn_values : \A l \in lit_rets[v] :
    (v.kind = "cint" /\ isInteger(v)) =>
      /\ (OutOfWord(v) /\ ~enable_bignums) => l = NoLit
      /\ (OutOfWord(v) /\ enable_bignums) => l = IntCst(SignedVal(v.w, v.bits))
      /\ ~OutOfWord(v) => l = IntCst(SignedVal(v.w, v.bits))

\* getLit has answered for a negative constant wider than the word that
\* fits the word, next to one that does not fit.
C9_Witness ==
  \E v \in fn_values : \E u \in fn_values :
    /\ v.kind = "cint" /\ v.w > WordBits /\ ~OutOfWord(v)
    /\ SignedVal(v.w, v.bits) < 0 /\ lit_rets[v] # {}
    /\ u.kind = "cint" /\ u.w > WordBits /\ OutOfWord(u) /\ lit_rets[u] # {}


(***************************************************************************)
(* Comparison normalisation on its own.                                    *)
(***************************************************************************)
CmpOperands ==
  { MkValue("var", "int", WordBits - 1, 0, "x"),
    MkValue("var", "int", WordBits - 1, 0, "y"),
    ConstInt(WordBits - 1, 0),
    ConstInt(WordBits - 1, 1),
    MkValue("var", "ptr", 0, 0, "p"),
    MkValue("null", "ptr", 0, 0, "") }

InitCmp ==
  /\ \E pr \in ICmpPredicates : \E a \in CmpOperands :
       \E b \in {c \in CmpOperands : c.tyk = a.tyk} : cmp_I = MkCmp(pr, a, b)
  /\ cmp_orig = cmp_I
  /\ cmp_n = 0
  /\ IdleLit
  /\ IdlePhi
  /\ IdleParams
  /\ IdleBld
  /\ IdleMan

Normalize ==
  /\ cmp_n < MaxNorm
  /\ cmp_I' = normalizeCmpInst(cmp_I)
  /\ cmp_n' = cmp_n + 1
  /\ UNCHANGED <<cmp_orig, litVars, phiVars, m_params, bldVars, manVars>>

NextCmp == Normalize

SpecCmp == InitCmp /\ [][NextCmp]_vars

\* C10: after one or more normalisations only ==, !=, < and <= are left; a >
\* or >= comparison has had its operands and its predicate swapped exactly
\* once, however often it was normalised, and any other comparison is as it
\* was.
C10_NormalizeIdempotent ==
  cmp_n >= 1 =>
    /\ cmp_I.pred \in {"ICMP_EQ", "ICMP_NE", "ICMP_ULT", "ICMP_ULE",
                        "ICMP_SLT", "ICMP_SLE"}
    /\ cmp_orig.pred \in {"ICMP_UGT", "ICMP_SGT", "ICMP_UGE", "ICMP_SGE"} =>
         /\ cmp_I.op0 = cmp_orig.op1 /\ cmp_I.op1 = cmp_orig.op0
         /\ cmp_orig.pred = "ICMP_UGT" => cmp_I.pred = "ICMP_ULT"
         /\ cmp_orig.pred = "ICMP_SGT" => cmp_I.pred = "ICMP_SLT"
         /\ cmp_orig.pred = "ICMP_UGE" => cmp_I.pred = "ICMP_ULE"
         /\ cmp_orig.pred = "ICMP_SGE" => cmp_I.pred = "ICMP_SLE"
    /\ cmp_orig.pred \notin {"ICMP_UGT", "ICMP_SGT", "ICMP_UGE", "ICMP_SGE"} =>
         cmp_I = cmp_orig

\* A >= comparison of two different operands was normalised twice.
C10_Witness ==
  /\ cmp_n = 2
  /\ cmp_orig.pred = "ICMP_SGE"
  /\ cmp_orig.op0 # cmp_orig.op1

(***************************************************************************)
(* The PHI visitor on one edge: the PHI nodes of the destination with      *)
(* their incoming values for the edge, the statements the visitor emits    *)
(* for them, and the execution of those statements from a state in which   *)
(* every variable holds a value of its own.                                *)
(***************************************************************************)
PhiNames == <<"a", "b", "c">>

PhiTypes == {"bool", "int", "ptr"}

\* A value of one of the three types, all integers being of the widest
\* width.
TypedValue(kind, ty, bits, name) ==
  CASE ty = "bool" -> MkValue(kind, "int", 1, bits, name)
    [] ty = "int" -> MkValue(kind, "int", MaxWidth, bits, name)
    [] OTHER -> MkValue(kind, "ptr", 0, 0, name)

\* The incoming values: the PHI nodes of the block, a variable defined
\* elsewhere, a constant, and a value without a literal (an integer constant
\* above the word's range, which has one only with bignums, or a constant
\* expression).
IncChoices == {"phi1", "phi2", "phi3", "var", "cst", "nolit"}

PhiIndex(ch) == CASE ch = "phi1" -> 1 [] ch = "phi2" -> 2 [] ch = "phi3" -> 3
                  [] OTHER -> 0

OutsideName(ty) == CASE ty = "bool" -> "c0" [] ty = "int" -> "x" [] OTHER -> "p"

PhiNode(names, tys, i) == TypedValue("var", tys[i], 0, names[i])

IncValue(names, tys, i, ch) ==
  CASE PhiIndex(ch) > 0 -> PhiNode(names, tys, PhiIndex(ch))
    [] ch = "var" -> TypedValue("var", tys[i], 0, OutsideName(tys[i]))
    [] ch = "cst" -> IF tys[i] = "ptr" THEN MkValue("null", "ptr", 0, 0, "")
                     ELSE TypedValue("cint", tys[i], 1, "")
    [] OTHER -> IF tys[i] = "int" THEN ConstInt(MaxWidth, Pow2(MaxWidth - 2))
                ELSE TypedValue("cexpr", tys[i], 0, "ce")

\* The value a constant expression has at run time.
CExprVal == Pow2(WordBits) - 1

\* The names of the variables, and the state in which the k-th of them holds
\* the value 100 + k.
VarNames ==
  PhiNames \o <<"shadow.mem.0", "c0", "x", "p">> \o
  [k \in 1 .. Len(PhiNames) |-> FreshName(k)]

InjectiveEnv ==
  [nm \in {VarNames[k] : k \in 1 .. Len(VarNames)} |->
     100 + (CHOOSE k \in 1 .. Len(VarNames) : VarNames[k] = nm)]

\* The value of a source value in the state env.
ValOf(v, env) ==
  CASE v.kind = "var" -> env[v.name]
    [] v.kind = "cint" -> IF v.w = 1 THEN v.bits ELSE SignedVal(v.w, v.bits)
    [] v.kind = "null" -> 0
    [] OTHER -> CExprVal

HavocDom == {0, 1}

InitPhi ==
  /\ enable_bignums \in BOOLEAN
  /\ track_ptr \in BOOLEAN
  /\ \E n3 \in {PhiNames[3]} \cup ShadowNames :
     \E tys \in [1 .. Len(PhiNames) -> PhiTypes] :
     \E chs \in [1 .. Len(PhiNames) -> IncChoices] :
       LET names == [PhiNames EXCEPT ![3] = n3]
       IN  /\ \A i \in 1 .. Len(PhiNames) :
                PhiIndex(chs[i]) > 0 => tys[PhiIndex(chs[i])] = tys[i]
           /\ phi_BB = [i \in 1 .. Len(PhiNames) |->
                          [phi |-> PhiNode(names, tys, i),
                           inc |-> IncValue(names, tys, i, chs[i])]]
  /\ vfac_n = 0
  /\ phi_stmts = <<>>
  /\ phi_pre = InjectiveEnv
  /\ phi_env = phi_pre
  /\ phi_ip = 0
  /\ fn_values = {}
  /\ m_lit_cache = EmptyCache
  /\ lit_rets = EmptyCache
  /\ lit_calls = EmptyCache
  /\ IdleCmp
  /\ IdleParams
  /\ IdleBld
  /\ IdleMan

\* CrabPhiVisitor v(m_lfac, m_mem, bb, B); v.visit(dst).
PhiVisit ==
  /\ phi_ip = 0
  /\ LET acc == visitBasicBlock(phi_BB, phi_stmts, vfac_n, m_lit_cache,
                                enable_bignums, track_ptr)
     IN  /\ ~acc.err
         /\ phi_stmts' = acc.stmts
         /\ vfac_n' = acc.n
         /\ m_lit_cache' = acc.cache
  /\ phi_ip' = 1
  /\ UNCHANGED <<enable_bignums, fn_values, lit_rets, lit_calls, cmpVars,
                 track_ptr, phi_BB, phi_pre, phi_env, m_params, bldVars, manVars>>

\* The block's next statement is executed.
PhiExec ==
  /\ phi_ip >= 1
  /\ phi_ip <= Len(phi_stmts)
  /\ phi_env' \in ExecStmt(phi_stmts[phi_ip], phi_env, HavocDom)
  /\ phi_ip' = phi_ip + 1
  /\ UNCHANGED <<litVars, cmpVars, track_ptr, vfac_n, phi_BB, phi_stmts, phi_pre,
                 m_params, bldVars, manVars>>

NextPhi == PhiVisit \/ PhiExec

SpecPhi == InitPhi /\ [][NextPhi]_vars

PhiDone == phi_ip > Len(phi_stmts)

\* An incoming value that getLit has a literal for.
HasLiteral(v) ==
  /\ v.kind # "cexpr"
  /\ ~(v.kind = "cint" /\ isInteger(v) /\ OutOfWord(v) /\ ~enable_bignums)

\* C1 as stated: once the statements of the edge have run, every tracked
\* PHI variable holds the value its incoming operand had before them.
C1_SimultaneousAlways ==
  PhiDone =>
    \A i \in 1 .. Len(phi_BB) :
      isTracked(phi_BB[i].phi, track_ptr) =>
        phi_env[phi_BB[i].phi.name] = ValOf(phi_BB[i].inc, phi_pre)

\* C1 amended: once the statements of the edge have run, every tracked PHI
\* variable whose incoming operand has a literal holds the value that
\* operand had before them, whatever the other PHI nodes of the block read;
\* a PHI variable whose incoming operand has no literal is given an
\* arbitrary value by a havoc.
C1_Simultaneous ==
  PhiDone =>
    \A i \in 1 .. Len(phi_BB) :
      isTracked(phi_BB[i].phi, track_ptr) =>
        IF HasLiteral(phi_BB[i].inc)
        THEN phi_env[phi_BB[i].phi.name] = ValOf(phi_BB[i].inc, phi_pre)
        ELSE \E k \in 1 .. Len(phi_stmts) :
               phi_stmts[k] = havoc_stmt(phi_BB[i].phi.name)

\* The statements of a = phi(b), b = phi(a) have run, with a third PHI node
\* that reads itself.
C1_Witness ==
  /\ PhiDone
  /\ phi_BB[1].inc = phi_BB[2].phi
  /\ phi_BB[2].inc = phi_BB[1].phi
  /\ phi_BB[3].inc = phi_BB[3].phi
  /\ \A i \in 1 .. 3 : isTracked(phi_BB[i].phi, track_ptr)

(***************************************************************************)
(* One builder on its own: the functions given to it, its construction,    *)
(* and the build_cfg and get_cfg calls on it.                              *)
(***************************************************************************)
\* How often build_cfg and get_cfg are called on the builder.
MaxBuilds == 2

IntVar(name) == MkValue("var", "int", MaxWidth, 0, name)

BoolVar(name) == MkValue("var", "int", 1, 0, name)

PtrVar(name) == MkValue("var", "ptr", 0, 0, name)

\* The operands of an integer comparison: variables, a constant, a constant
\* above the word's range and a constant expression.
IntOperands ==
  { IntVar("x"), IntVar("y"), ConstInt(MaxWidth, 1),
    ConstInt(MaxWidth, Pow2(MaxWidth - 2)),
    MkValue("cexpr", "int", MaxWidth, 0, "ce") }

BoolOperands == {BoolVar("b1"), BoolVar("b2"), ConstInt(1, 1)}

PtrOperands == {PtrVar("p"), PtrVar("q"), MkValue("null", "ptr", 0, 0, "")}

\* The conditions of a conditional branch: the condition, the comparison
\* that defines it, and the number of its uses.
MkCond(cond, cmp, uses) == [cond |-> cond, cmp |-> cmp, uses |-> uses]

Conditions ==
  {MkCond(BoolVar("c"), NoCmp, 1)}
  \cup {MkCond(BoolVar("c"), MkCmp(pr, a, b), u) :
          pr \in ICmpPredicates, a \in IntOperands, b \in IntOperands, u \in {1, 2}}
  \cup {MkCond(BoolVar("c"), MkCmp(pr, a, b), u) :
          pr \in {"ICMP_EQ", "ICMP_NE"}, a \in BoolOperands, b \in BoolOperands,
          u \in {1, 2}}
  \cup {MkCond(BoolVar("c"), MkCmp(pr, a, b), u) :
          pr \in {"ICMP_EQ", "ICMP_NE", "ICMP_ULT"}, a \in PtrOperands,
          b \in PtrOperands, u \in {1, 2}}
  \cup {MkCond(ConstInt(1, b), NoCmp, 1) : b \in {0, 1}}
  \cup {MkCond(MkValue("cexpr", "int", 1, 0, "cec"), NoCmp, 1)}

\* incs of a PHI node as a function of the predecessors' names.
Incoming(preds, vals) ==
  [nm \in {preds[i] : i \in 1 .. Len(preds)} |->
     vals[CHOOSE i \in 1 .. Len(preds) : preds[i] = nm]]

\* entry: br cond, t, f;  f: br t;  t: z = phi [x, entry], [1, f]; ret z
\* and, with same, entry: br cond, t, t;  t: z = phi [x, entry]; ret z.
\* The comparison that defines cond is carried by the terminator.
BranchFn(cd, same, withPhi) ==
  LET z == IntVar("z")
      phis == IF ~withPhi THEN <<>>
              ELSE IF same
              THEN <<MkPhi(z, Incoming(<<"entry">>, <<IntVar("x")>>))>>
              ELSE <<MkPhi(z, Incoming(<<"entry", "f">>,
                                       <<IntVar("x"), ConstInt(MaxWidth, 1)>>))>>
      rv == IF withPhi THEN z ELSE IntVar("x")
      entry == MkBlock("entry", <<>>, <<>>,
                       CondBr(cd.cond, cd.cmp, cd.uses, "t", IF same THEN "t" ELSE "f"))
      t == MkBlock("t", phis, <<>>, Ret(rv))
      f == MkBlock("f", <<>>, <<>>, Br("t"))
  IN  MkFunction("branch", <<IntVar("x"), IntVar("y")>>, IntVar(""), FALSE,
                 IF same THEN <<entry, t>> ELSE <<entry, f, t>>)

\* if (c) {x = 1} else {x = 2}; return x + 0, with the addition in the block
\* of the PHI node (split = FALSE) or in a block of its own after it.
IfElse(split) ==
  LET c == BoolVar("c")
      x == IntVar("x")
      r == IntVar("r")
      phi == MkPhi(x, Incoming(<<"then", "else">>,
                               <<ConstInt(MaxWidth, 1), ConstInt(MaxWidth, 2)>>))
      add == MkInst("binop", "Add", r, x, ConstInt(MaxWidth, 0))
      entry == MkBlock("entry", <<>>, <<>>, CondBr(c, NoCmp, 1, "then", "else"))
      then == MkBlock("then", <<>>, <<>>, Br("merge"))
      else == MkBlock("else", <<>>, <<>>, Br("merge"))
  IN  MkFunction("ifelse", <<c>>, r, FALSE,
        IF split
        THEN <<entry, then, else, MkBlock("merge", <<phi>>, <<>>, Br("exit")),
               MkBlock("exit", <<>>, <<add>>, Ret(r))>>
        ELSE <<entry, then, else, MkBlock("merge", <<phi>>, <<add>>, Ret(r))>>)

Functions ==
  {BranchFn(cd, same, withPhi) : cd \in Conditions, same \in BOOLEAN,
                                 withPhi \in BOOLEAN}
  \cup {IfElse(split) : split \in BOOLEAN}

ParamChoices ==
  {MkParams(bn, tp, ip, uh) : bn \in BOOLEAN, tp \in BOOLEAN, ip \in BOOLEAN,
                              uh \in BOOLEAN}

InitBuild ==
  /\ m_params \in ParamChoices
  /\ m_func \in Functions
  /\ m_builder = NewBuilder(m_func)
  /\ vfac_n = 0
  /\ bld_calls = 0
  /\ bld_rets = {}
  /\ IdleLit
  /\ IdleCmp
  /\ IdlePhiBlock
  /\ IdleMan

\* The builder with the variable factory of the manager as it is now, and
\* without it: the field n of a builder is the factory's counter while the
\* builder runs.
WithFactory(B) == [B EXCEPT !.n = vfac_n]

WithoutFactory(B) == [B EXCEPT !.n = 0]

\* CfgBuilder::build_cfg.  A builder that has reported an error has ended
\* the program.
BuildCfg ==
  /\ bld_calls < MaxBuilds
  /\ m_builder.err = ""
  /\ \E B \in {WithFactory(m_builder)} :
     \E B1 \in {build_cfg(B, m_params, m_func)} :
        /\ m_builder' = WithoutFactory(B1)
        /\ vfac_n' = B1.n
  /\ bld_calls' = bld_calls + 1
  /\ UNCHANGED <<litVars, cmpVars, track_ptr, phiBlockVars, m_params, m_func,
                 bld_rets, manVars>>

\* CfgBuilder::get_cfg.
GetCfg ==
  /\ bld_calls < MaxBuilds
  /\ m_builder.err = ""
  /\ \E B \in {WithFactory(m_builder)} :
     \E r \in {get_cfg(B, m_params, m_func)} :
        /\ m_builder' = WithoutFactory(r[2])
        /\ vfac_n' = r[2].n
        /\ bld_rets' = IF r[2].err = "" THEN bld_rets \cup {r[1]} ELSE bld_rets
  /\ bld_calls' = bld_calls + 1
  /\ UNCHANGED <<litVars, cmpVars, track_ptr, phiBlockVars, m_params, m_func,
                 manVars>>

NextBuild == BuildCfg \/ GetCfg

SpecBuild == InitBuild /\ [][NextBuild]_vars

\* The builder has built its graph without an error.
Built == m_builder.m_is_cfg_built /\ m_builder.err = ""

Cfg == m_builder.m_cfg

\* The labels of the blocks that stand for source blocks, and the blocks
\* made for edges.
NodeLabels ==
  {m_builder.m_node_to_crab_map[nm] : nm \in DOMAIN m_builder.m_node_to_crab_map}

Synthesized == DOMAIN Cfg.blocks \ NodeLabels

GuardOps == {"assume", "bool_assume", "bool_not_assume", "ptr_assume", "unreachable"}

StmtsOf(l) == {Cfg.blocks[l][k] : k \in 1 .. Len(Cfg.blocks[l])}

GuardsOf(l) == {st \in StmtsOf(l) : st.op \in GuardOps}

\* The block made for the edge of the entry's branch to its first successor
\* (the true edge) and to its second (the false edge); when both successors
\* are one block the map of the edges knows the first block only.
EntryBr == m_func.blocks[1].term

TrueEdgeBlock == m_builder.m_edge_to_crab_map[<<"entry", EntryBr.succs[1]>>]

FalseEdgeBlock ==
  IF EntryBr.succs[2] # EntryBr.succs[1]
  THEN m_builder.m_edge_to_crab_map[<<"entry", EntryBr.succs[2]>>]
  ELSE CHOOSE m \in NextBlocks(Cfg, "entry") \ {TrueEdgeBlock} : TRUE

(***************************************************************************)
(* The meaning of the guards: the states of the variables of a condition,  *)
(* and whether a state passes the guards of a block.                       *)
(***************************************************************************)
MkEnv(x, y, b1, b2, p, q, c) ==
  [x |-> x, y |-> y, b1 |-> b1, b2 |-> b2, p |-> p, q |-> q, c |-> c]

\* The value of an operand: small and not negative, so that the signed and
\* the unsigned order agree.
OperandVal(v, env) ==
  CASE v.kind = "var" -> env[v.name]
    [] v.kind = "cint" -> v.bits
    [] v.kind = "null" -> 0
    [] OTHER -> CExprVal

CmpHolds(cmp, env) ==
  LET a == OperandVal(cmp.op0, env)
      b == OperandVal(cmp.op1, env)
  IN  CASE cmp.pred = "ICMP_EQ" -> a = b
        [] cmp.pred = "ICMP_NE" -> a # b
        [] cmp.pred \in {"ICMP_UGT", "ICMP_SGT"} -> a > b
        [] cmp.pred \in {"ICMP_UGE", "ICMP_SGE"} -> a >= b
        [] cmp.pred \in {"ICMP_ULT", "ICMP_SLT"} -> a < b
        [] OTHER -> a <= b

\* The states in which the condition of br has the value of its comparison.
CondEnvs(br) ==
  IF br.cmp = NoCmp THEN {MkEnv(0, 0, 0, 0, 0, 0, c) : c \in {0, 1}}
  ELSE {[e EXCEPT !.c = IF CmpHolds(br.cmp, e) THEN 1 ELSE 0] :
          e \in IF isInteger(br.cmp.op0)
                THEN {MkEnv(x, y, 0, 0, 0, 0, 0) : x \in 0 .. 2, y \in 0 .. 2}
                ELSE IF isBool(br.cmp.op0)
                THEN {MkEnv(0, 0, b1, b2, 0, 0, 0) : b1 \in {0, 1}, b2 \in {0, 1}}
                ELSE {MkEnv(0, 0, 0, 0, p, q, 0) : p \in {0, 1}, q \in {0, 1}}}

GuardHolds(st, env) ==
  CASE st.op = "assume" ->
         CASE st.rel = "==" -> LitVal(st.a, env) = LitVal(st.b, env) + st.k
           [] st.rel = "!=" -> LitVal(st.a, env) # LitVal(st.b, env) + st.k
           [] st.rel = "<=" -> LitVal(st.a, env) <= LitVal(st.b, env) + st.k
           [] OTHER -> LitVal(st.a, env) >= LitVal(st.b, env) + st.k
    [] st.op = "bool_assume" -> LitVal(st.a, env) = 1
    [] st.op = "bool_not_assume" -> LitVal(st.a, env) = 0
    [] st.op = "ptr_assume" ->
         CASE st.rel = "eq_null" -> LitVal(st.a, env) = 0
           [] st.rel = "diseq_null" -> LitVal(st.a, env) # 0
           [] st.rel = "eq" -> LitVal(st.a, env) = LitVal(st.b, env)
           [] st.rel = "diseq" -> LitVal(st.a, env) # LitVal(st.b, env)
           [] OTHER -> st.rel = "true"
    [] OTHER -> FALSE

Passes(l, env) == \A st \in GuardsOf(l) : GuardHolds(st, env)

\* C3: for every conditional branch with a non-constant condition, in every
\* state of the condition's variables exactly one of the guards of the true
\* edge and of the false edge passes (they are mutually exclusive and
\* jointly exhaustive), also when both successors are the same block.
C3_GuardsComplementary ==
  (Built /\ EntryBr.op = "condbr" /\ EntryBr.cond.kind = "var") =>
    \A env \in CondEnvs(EntryBr) :
      Passes(TrueEdgeBlock, env) # Passes(FalseEdgeBlock, env)

C5_BuiltOnce ==
  [][ /\ m_builder.m_is_cfg_built =>
           /\ m_builder'.m_is_cfg_built
           /\ m_builder'.m_cfg = m_builder.m_cfg
           /\ m_builder'.m_id = m_builder.m_id
           /\ m_builder'.m_node_to_crab_map = m_builder.m_node_to_crab_map
           /\ m_builder'.m_edge_to_crab_map = m_builder.m_edge_to_crab_map
      /\ bld_rets' \subseteq {m_builder'.m_cfg} ]_vars

\* A built graph with edge blocks was asked for again, and get_cfg has
\* returned it.
C5_Witness ==
  /\ Built
  /\ bld_calls = MaxBuilds
  /\ bld_rets # {}
  /\ Synthesized # {}

(***************************************************************************)
(* The graph of if (c) {x = 1} else {x = 2}; return x + 0.                 *)
(***************************************************************************)
IsIfElse == \E split \in BOOLEAN : m_func = IfElse(split)

\* The block of the return instruction.
RetBlockName == IF m_func = IfElse(TRUE) THEN "exit" ELSE "merge"

AssignsTo(l, var) == \E st \in StmtsOf(l) : st.lhs = var

\* The two synthesized blocks on the edges of the branch hold bool_assume(c)
\* and bool_not_assume(c) and nothing else.
IfElseGuards ==
  /\ Cardinality(Synthesized) = 2
  /\ Synthesized = {TrueEdgeBlock, FalseEdgeBlock}
  /\ Cfg.blocks[TrueEdgeBlock] = <<bool_assume("c")>>
  /\ Cfg.blocks[FalseEdgeBlock] = <<bool_not_assume("c")>>
  /\ {<<"entry", TrueEdgeBlock>>, <<TrueEdgeBlock, "then">>,
      <<"entry", FalseEdgeBlock>>, <<FalseEdgeBlock, "else">>} \subseteq Cfg.edges

AddStmt == MkStmt("add", "r", IntVarLit("x"), IntCst(0))

MaxRequests == 2

\* The functions a module is made of.
ModuleFunctions ==
  {IfElse(split) : split \in BOOLEAN}
  \cup {BranchFn(cd, same, TRUE) :
          cd \in {MkCond(BoolVar("c"), NoCmp, 1),
                  MkCond(BoolVar("c"),
                         MkCmp("ICMP_SGT", IntVar("x"), ConstInt(MaxWidth, 1)), 1),
                  MkCond(BoolVar("c"),
                         MkCmp("ICMP_ULE", IntVar("x"), IntVar("y")), 2),
                  MkCond(BoolVar("c"),
                         MkCmp("ICMP_NE", PtrVar("p"), PtrVar("q")), 1)},
          same \in BOOLEAN}

ModuleNames == {"f1", "f2"}

Named(f, name) == [f EXCEPT !.name = name]

\* The function of the module with the given name.
FunctionOf(name) == CHOOSE f \in man_funcs : f.name = name

InitMan ==
  /\ m_params \in ParamChoices
  /\ \E g1 \in ModuleFunctions : \E g2 \in ModuleFunctions :
       man_funcs = {Named(g1, "f1"), Named(g2, "f2")}
  /\ m_cfg_builder_map = EmptyCache
  /\ man_next_id = 0
  /\ man_calls = [nm \in ModuleNames |-> 0]
  /\ man_rets = [nm \in ModuleNames |-> {}]
  /\ man_translated = [nm \in ModuleNames |-> 0]
  /\ vfac_n = 0
  /\ IdleLit
  /\ IdleCmp
  /\ IdlePhiBlock
  /\ IdleBld

\* A mutant of FindBuilder: the map never has the function.
FindBuilderNever(map, name) == FALSE

\* m_cfg_builder_map.find(&f) != m_cfg_builder_map.end().
FindBuilder(map, name) == name \in DOMAIN map

\* m_cfg_builder_map.insert({&f, builder}): an existing entry is kept.
InsertBuilder(map, name, builder) ==
  IF name \in DOMAIN map THEN map ELSE MapInsert(map, name, builder)

\* No builder of the manager has reported an error, which ends the program.
NoError ==
  \A nm \in DOMAIN m_cfg_builder_map : m_cfg_builder_map[nm].impl.err = ""

\* CrabBuilderManager::mk_cfg_builder(f).  A builder is its implementation
\* (impl) and the identity of the object (id).
MkCfgBuilder(name) ==
  /\ NoError
  /\ man_calls[name] < MaxRequests
  /\ man_calls' = [man_calls EXCEPT ![name] = @ + 1]
  /\ IF ~FindBuilder(m_cfg_builder_map, name)
     THEN \E B \in {WithFactory(NewBuilder(FunctionOf(name)))} :
          \E B1 \in {build_cfg(B, m_params, FunctionOf(name))} :
            /\ m_cfg_builder_map' =
                 InsertBuilder(m_cfg_builder_map, name,
                               [id |-> man_next_id + 1, impl |-> WithoutFactory(B1)])
            /\ man_next_id' = man_next_id + 1
            /\ vfac_n' = B1.n
            /\ man_translated' = [man_translated EXCEPT ![name] = @ + 1]
            /\ man_rets' = [man_rets EXCEPT ![name] = @ \cup {man_next_id + 1}]
     ELSE /\ man_rets' = [man_rets EXCEPT ![name] =
                            @ \cup {m_cfg_builder_map[name].id}]
          /\ UNCHANGED <<m_cfg_builder_map, man_next_id, vfac_n, man_translated>>
  /\ UNCHANGED <<litVars, cmpVars, track_ptr, phiBlockVars, m_params, bldVars,
                 man_funcs>>

\* CrabBuilderManager::get_cfg(f): the graph of the builder of f, which must
\* exist.
ManGetCfg(name) ==
  /\ NoError
  /\ FindBuilder(m_cfg_builder_map, name)
  /\ \E B \in {WithFactory(m_cfg_builder_map[name].impl)} :
     \E r \in {get_cfg(B, m_params, FunctionOf(name))} :
       /\ m_cfg_builder_map' =
            [m_cfg_builder_map EXCEPT ![name].impl = WithoutFactory(r[2])]
       /\ vfac_n' = r[2].n
       /\ bld_rets' = bld_rets \cup {r[1]}
       /\ man_translated' =
            IF m_cfg_builder_map[name].impl.m_is_cfg_built THEN man_translated
            ELSE [man_translated EXCEPT ![name] = @ + 1]
  /\ UNCHANGED <<litVars, cmpVars, track_ptr, phiBlockVars, m_params, m_func,
                 m_builder, bld_calls, man_funcs, man_next_id, man_calls, man_rets>>

Next ==
  \E name \in ModuleNames : MkCfgBuilder(name) \/ ManGetCfg(name)

Spec == InitMan /\ [][Next]_vars

\* C6: each function is translated at most once: the builders that the
\* requests for one function have returned are one builder, the cached one,
\* which is built; and a request never changes or removes a cached builder,
\* of its own function or of another.
C6_TranslatedOnce ==
  [][ /\ \A nm \in ModuleNames :
           /\ man_translated'[nm] <= 1
           /\ Cardinality(man_rets'[nm]) <= 1
           /\ man_rets'[nm] # {} =>
                /\ nm \in DOMAIN m_cfg_builder_map'
                /\ man_rets'[nm] = {m_cfg_builder_map'[nm].id}
                /\ m_cfg_builder_map'[nm].impl.m_is_cfg_built
      /\ \A nm \in DOMAIN m_cfg_builder_map :
           /\ nm \in DOMAIN m_cfg_builder_map'
           /\ m_cfg_builder_map'[nm] = m_cfg_builder_map[nm] ]_vars

\* Both functions were requested twice, and their graphs have edge blocks.
C6_Witness ==
  /\ \A nm \in ModuleNames :
       /\ man_calls[nm] = MaxRequests
       /\ nm \in DOMAIN m_cfg_builder_map
       /\ m_cfg_builder_map[nm].impl.m_edge_to_crab_map # EmptyCache
  /\ m_cfg_builder_map["f1"].impl.m_cfg # m_cfg_builder_map["f2"].impl.m_cfg

(***************************************************************************)
(* The function declaration and the exit of the graph: functions of one or *)
(* two blocks that return an argument, a value computed in the entry, a    *)
(* constant or nothing, or that end in unreachable.                        *)
(***************************************************************************)
DeclArgs == <<IntVar("x"), BoolVar("b"), PtrVar("p")>>

\* The values a function returns; NoValue is the return of a void function.
RetValues ==
  {IntVar("x"), BoolVar("b"), PtrVar("p"), IntVar("r"), ConstInt(MaxWidth, 1),
   NoValue}

\* The return types of a function that does not return.
RetTypes == {IntVar(""), BoolVar(""), PtrVar(""), NoValue}

\* entry: [r = x + 1;] term          or, with split,
\* entry: [r = x + 1;] br exit;  exit: w = phi [1, entry]; term.
DeclFn(term, retTy, body, split, va) ==
  LET insts == IF body
               THEN <<MkInst("binop", "Add", IntVar("r"), IntVar("x"),
                             ConstInt(MaxWidth, 1))>>
               ELSE <<>>
      phi == MkPhi(IntVar("w"), Incoming(<<"entry">>, <<ConstInt(MaxWidth, 1)>>))
  IN  MkFunction("decl", DeclArgs, retTy, va,
        IF split
        THEN <<MkBlock("entry", <<>>, insts, Br("exit")),
               MkBlock("exit", <<phi>>, <<>>, term)>>
        ELSE <<MkBlock("entry", <<>>, insts, term)>>)

DeclFunctions ==
  {DeclFn(Ret(rv), rv, body, split, va) :
     rv \in RetValues, body \in BOOLEAN, split \in BOOLEAN, va \in BOOLEAN}
  \cup {DeclFn(Unreachable, ty, body, split, va) :
          ty \in RetTypes, body \in BOOLEAN, split \in BOOLEAN, va \in BOOLEAN}

InitDecl ==
  /\ m_params \in ParamChoices
  /\ m_func \in DeclFunctions
  /\ m_builder = NewBuilder(m_func)
  /\ vfac_n = 0
  /\ bld_calls = 0
  /\ bld_rets = {}
  /\ IdleLit
  /\ IdleCmp
  /\ IdlePhiBlock
  /\ IdleMan

SpecDecl == InitDecl /\ [][NextBuild]_vars

SeqSet(s) == {s[i] : i \in 1 .. Len(s)}

\* The function returns one of its arguments, which is tracked, and
\* build_cfg assembles its declaration.
ReturnsParam ==
  /\ m_params.interprocedural
  /\ ~m_func.isVarArg
  /\ \E i \in 1 .. Len(m_func.blocks) :
       /\ m_func.blocks[i].term.op = "ret"
       /\ m_func.blocks[i].term.val \in SeqSet(m_func.args)
       /\ isTracked(m_func.blocks[i].term.val, m_params.track_ptr)

ReturnedName ==
  (CHOOSE b \in SeqSet(m_func.blocks) : b.term.op = "ret").term.val.name

TrackedArgs ==
  {a \in SeqSet(m_func.args) : isTracked(a, m_params.track_ptr)}

\* C11: whenever build_cfg has set a function declaration its inputs and
\* its outputs are disjoint; a function that returns one of its arguments
\* never raises the error of the intersection check: its declaration is set
\* with the returned variable as the output and, in its place among the
\* inputs, a variable that is no argument.
C11_DeclDisjoint ==
  /\ (m_builder.m_is_cfg_built /\ Cfg.decl.set) =>
       SeqSet(Cfg.decl.inputs) \cap SeqSet(Cfg.decl.outputs) = {}
  /\ (m_builder.m_is_cfg_built /\ ReturnsParam) =>
       /\ m_builder.err = ""
       /\ Cfg.decl.set
       /\ Cfg.decl.outputs = <<ReturnedName>>
       /\ Len(Cfg.decl.inputs) = Cardinality(TrackedArgs)
       /\ \E i \in 1 .. Len(Cfg.decl.inputs) :
            Cfg.decl.inputs[i] \notin {a.name : a \in SeqSet(m_func.args)}

\* The declaration of a function that returns its argument x was set, with
\* the other arguments as inputs.
C11_Witness ==
  /\ Built
  /\ ReturnsParam
  /\ ReturnedName = "x"
  /\ Cfg.decl.set
  /\ "b" \in SeqSet(Cfg.decl.inputs)
  /\ "x" \notin SeqSet(Cfg.decl.inputs)

\* The assignment that bridges a renamed argument and the argument.
IsBridge(st) ==
  /\ st.op \in {"assign", "bool_assign", "ptr_assign"}
  /\ st.lhs \in SeqSet(Cfg.decl.inputs)
  /\ st.a.isVar
  /\ st.a.var = ReturnedName

\* C12: when an argument is renamed the bridging assignment is the first
\* statement of the entry block, before the statements of the body, the
\* return statement and the assignments of the PHI nodes.
C12_BridgeFirst ==
  (Built /\ ReturnsParam) =>
    /\ Len(Cfg.blocks[Cfg.entry]) >= 1
    /\ IsBridge(Cfg.blocks[Cfg.entry][1])

(***************************************************************************)
(* The shape of the graph: functions of three blocks entry, b1 and b2 with *)
(* every kind of terminator, with and without PHI nodes in b1 and b2.      *)
(***************************************************************************)
\* A terminator that is neither a branch, a switch, a return nor
\* unreachable (resume, invoke, indirectbr), with its successors.
Other(succs_) == MkTerm("other", NoValue, NoCmp, 0, succs_, NoValue)

EntryTerms ==
  { Ret(NoValue), Unreachable, Other(<<>>), Other(<<"b1", "b2">>), Br("b1"),
    CondBr(BoolVar("c"), NoCmp, 1, "b1", "b2"),
    CondBr(BoolVar("c"), NoCmp, 1, "b1", "b1"),
    Switch("b1", <<"b2">>), Switch("b2", <<"b1", "b1">>) }

InnerTerms(self, other) ==
  { Ret(NoValue), Unreachable, Other(<<>>), Other(<<self>>), Br(self), Br(other),
    CondBr(BoolVar("c"), NoCmp, 1, self, other), Switch(self, <<other>>) }

\* The PHI node of a block: its incoming value tells the predecessor.
ShapePhi(name) ==
  MkPhi(IntVar(name),
        [nm \in {"entry", "b1", "b2"} |->
           ConstInt(MaxWidth, CASE nm = "entry" -> 1 [] nm = "b1" -> 2 [] OTHER -> 3)])

ShapeFn(t0, t1, t2, withPhi) ==
  MkFunction("shape", <<BoolVar("c")>>, NoValue, FALSE,
    << MkBlock("entry", <<>>, <<>>, t0),
       MkBlock("b1", IF withPhi THEN <<ShapePhi("z")>> ELSE <<>>, <<>>, t1),
       MkBlock("b2", IF withPhi THEN <<ShapePhi("w")>> ELSE <<>>, <<>>, t2) >>)

ShapeFunctions ==
  {ShapeFn(t0, t1, t2, withPhi) :
     t0 \in EntryTerms, t1 \in InnerTerms("b1", "b2"),
     t2 \in InnerTerms("b2", "b1"), withPhi \in BOOLEAN}

ShapeParams == {MkParams(FALSE, FALSE, ip, uh) : ip \in BOOLEAN, uh \in BOOLEAN}

InitShape ==
  /\ m_params \in ShapeParams
  /\ m_func \in ShapeFunctions
  /\ m_builder = NewBuilder(m_func)
  /\ vfac_n = 0
  /\ bld_calls = 0
  /\ bld_rets = {}
  /\ IdleLit
  /\ IdleCmp
  /\ IdlePhiBlock
  /\ IdleMan

SpecShape == InitShape /\ [][NextBuild]_vars

\* The blocks of the function by their terminators, as names.
RetBlocks == {b.name : b \in {x \in SeqSet(m_func.blocks) : x.term.op = "ret"}}

UnreachableBlocks == {b.name : b \in {x \in SeqSet(m_func.blocks) : HasUnreachableInst(x)}}

\* The blocks whose terminator gives their block in the graph no successor.
SinkBlocks ==
  {b.name : b \in {x \in SeqSet(m_func.blocks) :
                     x.term.op \notin {"br", "condbr", "switch"}}}

\* entry: goto loop; loop: goto loop.
SelfLoopPattern ==
  /\ Len(succs(m_func.blocks[1])) = 1
  /\ succs(BlockOf(m_func, succs(m_func.blocks[1])[1]))
       = <<succs(m_func.blocks[1])[1]>>

\* The position of a block in the function.
BlockIndex(name) ==
  CHOOSE i \in 1 .. Len(m_func.blocks) : m_func.blocks[i].name = name

FirstOf(names) ==
  CHOOSE nm \in names : \A other \in names : BlockIndex(nm) <= BlockIndex(other)

\* C13: the exit is chosen by the first rule that applies: the block of the
\* return; without a return the self-looping successor of the entry; without
\* that a block with an unreachable instruction; without that a block
\* without successors; and no exit when no rule applies.
C13_ExitOrder ==
  Built =>
    IF RetBlocks # {} THEN Cfg.has_exit /\ Cfg.exit \in RetBlocks
    ELSE IF SelfLoopPattern
    THEN Cfg.has_exit /\ Cfg.exit = succs(m_func.blocks[1])[1]
    ELSE IF UnreachableBlocks # {}
    THEN Cfg.has_exit /\ Cfg.exit \in UnreachableBlocks
    ELSE IF SinkBlocks # {} THEN Cfg.has_exit /\ Cfg.exit \in SinkBlocks
    ELSE ~Cfg.has_exit

\* A function without a return whose entry leads to a self-looping block,
\* with a block that holds unreachable: the self-looping block is the exit.
C13_Witness ==
  /\ Built
  /\ RetBlocks = {}
  /\ SelfLoopPattern
  /\ UnreachableBlocks # {}
  /\ Cfg.exit = "b1"

\* C14: when the last rule determines the exit and several blocks have no
\* successors, the exit is the first of them in the order of the function.
C14_FirstSink ==
  (Built /\ RetBlocks = {} /\ ~SelfLoopPattern /\ UnreachableBlocks = {}
     /\ SinkBlocks # {}) =>
    Cfg.exit = FirstOf(SinkBlocks)

\* C15: a built graph has at most one exit: a function with two or more
\* blocks that end in a return raises the error of the second return and
\* yields no graph, and the exit of a built graph is the one block of the
\* return.
C15_OneExit ==
  /\ (m_builder.m_is_cfg_built /\ Cardinality(RetBlocks) >= 2) =>
       /\ m_builder.err = "UnifyFunctionExitNodes pass should be run first"
       /\ bld_rets = {}
       /\ Cfg.exit = FirstOf(RetBlocks)
  /\ Built =>
       /\ Cardinality(RetBlocks) <= 1
       /\ RetBlocks # {} => Cfg.has_exit /\ {Cfg.exit} = RetBlocks
       /\ Cfg.has_exit => Cfg.exit \in NodeLabels

\* The build of a function with two returns has ended in the error.
C15_Witness ==
  /\ m_builder.m_is_cfg_built
  /\ RetBlocks = {"b1", "b2"}
  /\ m_builder.err # ""

(***************************************************************************)
(* Address computations: a function whose entry computes one address twice,*)
(* g1 with all indices constants and g2 with some of the same indices      *)
(* given as arguments of the function.                                     *)
(***************************************************************************)
\* The constant index with the signed value v, of the width of the word.
IndexCst(v) == ConstInt(WordBits, APIntSigned(WordBits, v))

IndexValues == {0 - 1, 0, 1, 2}

\* The layouts of the structures, and the elements of the sequential types
\* as <<store size, alloc size>>.
StructLayouts == {<<0, 1>>, <<0, 2>>}

ElementSizes == {<<1, 1>>, <<2, 2>>, <<1, 2>>}

GepSteps ==
  {StructStep(ly, IndexCst(f)) : ly \in StructLayouts, f \in {0, 1}}
  \cup {SeqStep(sz[1], sz[2], IndexCst(v)) : sz \in ElementSizes, v \in IndexValues}

\* The type paths: the first index steps over the pointer.
GepPaths ==
  {<<s1, s2>> : s1 \in {s \in GepSteps : s.kind = "seq"}, s2 \in GepSteps}
  \cup {<<s1, s2, s3>> : s1 \in {SeqStep(1, 1, IndexCst(0))},
                         s2 \in {s \in GepSteps : s.kind = "struct"},
                         s3 \in {s \in GepSteps : s.kind = "seq"}}

IndexArg(i) == IntVar("i" \o ToString(i))

\* The path with the indices at the positions sym given as arguments.
Symbolic(path, sym) ==
  [i \in 1 .. Len(path) |->
     IF i \in sym THEN [path[i] EXCEPT !.idx = IndexArg(i)] ELSE path[i]]

GepFn(path, sym) ==
  MkFunction("gep", <<PtrVar("p"), IndexArg(1), IndexArg(2), IndexArg(3)>>,
             NoValue, FALSE,
    << MkBlock("entry", <<>>,
               << MkGep(PtrVar("g1"), PtrVar("p"), path),
                  MkGep(PtrVar("g2"), PtrVar("p"), Symbolic(path, sym)) >>,
               Ret(NoValue)) >>)

GepFunctions ==
  UNION {{GepFn(path, sym) :
            sym \in (SUBSET {i \in 1 .. Len(path) : path[i].kind = "seq"}) \ {{}}} :
           path \in GepPaths}

GepParams == {MkParams(bn, TRUE, FALSE, uh) : bn \in BOOLEAN, uh \in BOOLEAN}

InitGep ==
  /\ m_params \in GepParams
  /\ m_func \in GepFunctions
  /\ m_builder = NewBuilder(m_func)
  /\ vfac_n = 0
  /\ bld_calls = 0
  /\ bld_rets = {}
  /\ IdleLit
  /\ IdleCmp
  /\ IdlePhiBlock
  /\ IdleMan

SpecGep == InitGep /\ [][NextBuild]_vars

\* The path of g1, and the state in which p is 0 and every index argument
\* has the value of the constant it stands for.
GepPath == m_func.blocks[1].insts[1].steps

GepEnv ==
  [nm \in {"p", "g1", "g2", "i1", "i2", "i3"} |->
     IF nm \in {"i1", "i2", "i3"}
     THEN LET i == CHOOSE k \in 1 .. 3 : nm = "i" \o ToString(k)
          IN  IF i <= Len(GepPath)
              THEN SignedVal(GepPath[i].idx.w, GepPath[i].idx.bits)
              ELSE 0
     ELSE 0]

\* The state after the pointer assignments of stmts from the i-th on.
RECURSIVE PtrExec(_, _, _)
PtrExec(stmts, i, env) ==
  IF i > Len(stmts) THEN env
  ELSE PtrExec(stmts, i + 1,
         IF stmts[i].op # "ptr_assign" THEN env
         ELSE [env EXCEPT ![stmts[i].lhs] =
                 IF stmts[i].rel = "*"
                 THEN env[stmts[i].a.var] + LitVal(stmts[i].b, env) * stmts[i].k
                 ELSE env[stmts[i].a.var] + stmts[i].b.num])

\* The offsets of g1 and g2 from p that the statements of the entry compute.
GepOffset(g) == PtrExec(Cfg.blocks["entry"], 1, GepEnv)[g]

\* C16: for an address computation whose indices are all constants, the
\* offset of the one pointer assignment of the constant translation equals
\* the sum of the offsets that the translation index by index accumulates
\* for the same access.
C16_GepOffsetsAgree ==
  Built => GepOffset("g1") = GepOffset("g2")

(***************************************************************************)
(* Memory and calls: functions of one block whose instructions are stores, *)
(* loads, memcpys and calls, translated with the heap abstraction's        *)
(* regions.                                                                *)
(***************************************************************************)
\* The region of the global g: the only region that may hold a singleton.
GlobalRegion(type, singleton) ==
  MkRegion(1, type, IF type = "BOOL_REGION" THEN 1 ELSE MaxWidth, singleton)

GlobalRegions ==
  {GlobalRegion(type, singleton) :
     type \in {"INT_REGION", "BOOL_REGION"}, singleton \in BOOLEAN}

\* The region of the pointer q, narrower than the values stored in it; a
\* region of pointers; a region of the callee; a region a callee creates.
QRegion == MkRegion(2, "INT_REGION", MaxWidth - 1, FALSE)

PtrRegion == MkRegion(3, "PTR_REGION", 0, FALSE)

CalleeRegion == MkRegion(4, "INT_REGION", MaxWidth, FALSE)

NewRegion == MkRegion(5, "INT_REGION", MaxWidth, FALSE)

\* The value stored in, and loaded from, the global of the region G.
GlobalValue(G, int_name, bool_name) ==
  IF G.type = "BOOL_REGION" THEN BoolVar(bool_name) ELSE IntVar(int_name)

MemoryInsts(G) ==
  { MkStore(GlobalValue(G, "x", "b"), PtrVar("g"), G),
    MkStore(ConstInt(G.bitwidth, 1), PtrVar("g"), G),
    MkLoad(GlobalValue(G, "y", "c"), PtrVar("g"), G),
    MkStore(IntVar("x"), PtrVar("q"), QRegion),
    MkLoad(IntVar("z"), PtrVar("q"), QRegion),
    MkStore(PtrVar("p"), PtrVar("pp"), PtrRegion),
    MkLoad(PtrVar("lp"), PtrVar("pp"), PtrRegion),
    MkStore(IntVar("x"), MkValue("null", "ptr", 0, 0, ""), UnknownRegion),
    MkMemCpy(PtrVar("g"), PtrVar("q"), G, QRegion),
    MkMemCpy(PtrVar("q"), PtrVar("g"), QRegion, G),
    MkMemCpy(PtrVar("q"), PtrVar("pp"), QRegion, PtrRegion) }

\* The actual parameters of every call: a variable, a constant, a value
\* that is not tracked and a boolean.
CallArgs ==
  <<IntVar("x"), ConstInt(MaxWidth, 1), MkValue("var", "other", 0, 0, "f"),
    BoolVar("b")>>

\* The result of a call, the return type of its callee and whether the
\* call is direct.  A direct call has the type its callee returns.
CallShapes ==
  { <<IntVar("r"), IntVar(""), TRUE>>,
    <<PtrVar("r"), PtrVar(""), TRUE>>,
    <<NoValue, NoValue, TRUE>>,
    <<NoValue, NoValue, FALSE>>,
    <<NoValue, IntVar(""), FALSE>>,
    <<IntVar("r"), IntVar(""), FALSE>>,
    <<IntVar("r"), NoValue, FALSE>> }

\* The regions of a call site, as the heap abstraction reports them.
CallRegions(G) ==
  { [onlyreads |-> <<>>, mods |-> <<>>, news |-> <<>>],
    [onlyreads |-> <<QRegion, PtrRegion>>, mods |-> <<G, CalleeRegion>>,
     news |-> <<CalleeRegion, NewRegion>>] }

CallInsts(G) ==
  {MkCall(sh[1], MkCallee("foo", sh[2], kind = "declaration", kind = "vararg"),
          sh[3], CallArgs, rs.onlyreads, rs.mods, rs.news) :
     sh \in CallShapes, kind \in {"defined", "declaration", "vararg"},
     rs \in CallRegions(G)}

\* One instruction, or a memory instruction followed by another instruction
\* that defines another value.
MemoryBodies(G) ==
  {<<I>> : I \in MemoryInsts(G) \cup CallInsts(G)}
  \cup UNION {{<<I, J>> : J \in (MemoryInsts(G) \cup CallInsts(G)) \ {I}} :
                I \in MemoryInsts(G)}

\* The function of a body, with the regions the heap abstraction reports
\* for it.
MemoryFn(G, body) ==
  [name |-> "mem", args |-> <<IntVar("x"), BoolVar("b"), PtrVar("q")>>,
   retTy |-> NoValue, isVarArg |-> FALSE,
   blocks |-> <<MkBlock("entry", <<>>, body, Ret(NoValue))>>,
   onlyreads |-> <<PtrRegion>>, mods |-> <<G, QRegion>>, news |-> <<NewRegion>>]

MemoryFunctions ==
  UNION {{MemoryFn(G, body) : body \in MemoryBodies(G)} : G \in GlobalRegions}

MemoryParams ==
  {MkArrParams(FALSE, ip, uh, ls) :
     ip \in BOOLEAN, uh \in BOOLEAN, ls \in BOOLEAN}
  \cup {MkParams(FALSE, tp, ip, FALSE) : tp \in BOOLEAN, ip \in BOOLEAN}

InitMem ==
  /\ m_params \in MemoryParams
  /\ m_func \in MemoryFunctions
  /\ m_builder = NewBuilder(m_func)
  /\ vfac_n = 0
  /\ bld_calls = 0
  /\ bld_rets = {}
  /\ IdleLit
  /\ IdleCmp
  /\ IdlePhiBlock
  /\ IdleMan

SpecMem == InitMem /\ [][NextBuild]_vars

\* The type a statement gives the variable it defines.
LhsType(st) ==
  CASE "lty" \in DOMAIN st -> {st.lty}
    [] st.op \in {"assign", "truncate", "sext"} -> {"int"}
    [] st.op = "bool_assign" -> {"bool"}
    [] st.op \in {"ptr_assign", "ptr_null", "ptr_load"} -> {"ptr"}
    [] OTHER -> {}

\* The variables of a statement, each a pair of a name and a type.
StmtVars(st) ==
  {<<st.lhs, ty>> : ty \in LhsType(st)}
  \cup {<<o.var, o.cls>> : o \in {x \in {st.a, st.b} : x.isVar}}
  \cup (IF st.op = "callsite"
        THEN {<<v.name, v.type>> : v \in SeqSet(st.inputs) \cup SeqSet(st.outputs)}
        ELSE {})

\* The variables of the statements, the call sites and the declaration of
\* the graph.
GraphVars ==
  UNION {UNION {StmtVars(Cfg.blocks[l][i]) : i \in 1 .. Len(Cfg.blocks[l])} :
           l \in DOMAIN Cfg.blocks}
  \cup {<<v.name, v.type>> : v \in Cfg.decl.array_params}

\* C17: within one function's translation every variable name is used with
\* exactly one type: no statement, call site or declaration uses a name as
\* a scalar in one place and as an array in another.
C17_OneTypePerName ==
  Built => \A u \in GraphVars : \A v \in GraphVars : u[1] = v[1] => u[2] = v[2]

(***************************************************************************)
(* Reachability in the graphs of the three-block functions.                *)
(***************************************************************************)
\* The blocks of cfg that a path of edges reaches from the blocks of S.
RECURSIVE ReachableFrom(_, _)
ReachableFrom(cfg, S) ==
  IF UNION {NextBlocks(cfg, l) : l \in S} \subseteq S THEN S
  ELSE ReachableFrom(cfg, S \cup UNION {NextBlocks(cfg, l) : l \in S})

\* C18: in every built graph every block other than the entry, the guard
\* blocks of the conditional branches included, is reachable from the entry
\* along the edges of the graph.
C18_AllReachable ==
  Built => DOMAIN Cfg.blocks \subseteq ReachableFrom(Cfg, {Cfg.entry})

\* The successors of a block that exec_edge turns into edges.
BranchSuccs(b) ==
  IF b.term.op \in {"br", "condbr", "switch"} THEN SeqSet(succs(b)) ELSE {}

RECURSIVE SourceReachable(_, _)
SourceReachable(f, S) ==
  IF UNION {BranchSuccs(BlockOf(f, n)) : n \in S} \subseteq S THEN S
  ELSE SourceReachable(f, S \cup UNION {BranchSuccs(BlockOf(f, n)) : n \in S})

\* What does hold: a source block that the br, condbr and switch terminators
\* reach from the entry has its block reached in the graph.
BranchedAreReached ==
  Built =>
    {NodeLabel(n) : n \in SourceReachable(m_func, {"entry"})}
      \subseteq ReachableFrom(Cfg, {Cfg.entry})

(***************************************************************************)
(* The placement of the PHI assignments in the graphs of the three-block   *)
(* functions.  The PHI node of a block takes a constant that names the     *)
(* predecessor, so an assignment tells the edge it was made for.           *)
(***************************************************************************)
\* The blocks of the graph that hold the assignment of the PHI nodes of dst
\* for the edge from pred.
PhiHolders(pred, dst) ==
  {l \in DOMAIN Cfg.blocks :
     \E i \in 1 .. Len(Cfg.blocks[l]) :
     \E j \in 1 .. Len(BlockOf(m_func, dst).phis) :
        /\ Cfg.blocks[l][i].op = "assign"
        /\ Cfg.blocks[l][i].lhs = BlockOf(m_func, dst).phis[j].phi.name
        /\ Cfg.blocks[l][i].a
             = IntCst(SignedVal(MaxWidth, BlockOf(m_func, dst).phis[j].incs[pred].bits))}

\* The assignments for the edge from pred to dst are on that edge: a block
\* holds them that control crosses on its way from pred to dst, and every
\* block that holds them leads to dst and nowhere else.
PhiOnEdge(pred, dst) ==
  /\ \E l \in PhiHolders(pred, dst) :
        /\ l = NodeLabel(pred) \/ <<NodeLabel(pred), l>> \in Cfg.edges
        /\ <<l, NodeLabel(dst)>> \in Cfg.edges
  /\ \A l \in PhiHolders(pred, dst) : NextBlocks(Cfg, l) = {NodeLabel(dst)}

\* The edges of the function out of the terminators of the kinds ops, into
\* blocks with PHI nodes.
PhiEdges(ops) ==
  {e \in BlockNames(m_func) \X BlockNames(m_func) :
     /\ BlockOf(m_func, e[1]).term.op \in ops
     /\ e[2] \in SeqSet(succs(BlockOf(m_func, e[1])))
     /\ BlockOf(m_func, e[2]).phis # <<>>}

\* C20: the PHI assignments of an edge (pred, dst) are placed on that edge,
\* whatever the terminator of pred is (br, conditional br or switch): they
\* execute when control passes from pred to dst and never when control
\* leaves pred for another successor.
C20_PhiOnEdge ==
  Built => \A e \in PhiEdges({"br", "condbr", "switch"}) : PhiOnEdge(e[1], e[2])

\* What does hold: the PHI assignments of the edges out of a conditional or
\* unconditional br are on their edge.
PhiOnEdgeOfBr ==
  Built => \A e \in PhiEdges({"br", "condbr"}) : PhiOnEdge(e[1], e[2])

\* The PHI assignments of all the destinations of a switch are in the block
\* of the switch itself.
PhiOfSwitchInBlock ==
  Built => \A e \in PhiEdges({"switch"}) : PhiHolders(e[1], e[2]) = {NodeLabel(e[1])}

(***************************************************************************)
(* The call statement of a call site, in the functions of the memory       *)
(* instructions.                                                           *)
(***************************************************************************)
NamesOf(vs) == [i \in 1 .. Len(vs) |-> vs[i].name]

RegionNames(rs) == [i \in 1 .. Len(rs) |-> RegionName(rs[i].id)]

\* The names the variable factory has made.
FreshNames == {FreshName(n) : n \in 1 .. vfac_n}

\* The actual parameters of the call I that are tracked.
TrackedActuals(I) ==
  SelectSeq(I.args, LAMBDA v : isTracked(v, m_params.track_ptr))

\* The regions of the call I that are modified and not new.
ModifiedNotNew(I) ==
  SelectSeq(get_modified_regions(I),
            LAMBDA r : ~InVector(get_new_regions(I), r))

\* The names of the region inputs and of the region outputs a call
\* statement for I is to have; below the track level ARR there are none.
RegionInputs(I) ==
  IF m_params.track_arr
  THEN RegionNames(get_read_only_regions(I)) \o RegionNames(ModifiedNotNew(I))
  ELSE <<>>

RegionOutputs(I) ==
  IF m_params.track_arr
  THEN RegionNames(ModifiedNotNew(I)) \o RegionNames(get_new_regions(I))
  ELSE <<>>

\* The variable var stands for the actual parameter v in the call statement
\* at position k of the block blk: v itself, or a fresh variable that an
\* earlier statement of the block sets to the constant v.
IsActual(blk, k, v, var) ==
  IF v.kind = "var" THEN var = MkVar(v.name, VarType(v))
  ELSE /\ var.name \in FreshNames
       /\ var.type = VarType(v)
       /\ \E i \in 1 .. (k - 1) :
            /\ blk[i].op \in {"assign", "bool_assign"}
            /\ blk[i].lhs = var.name
            /\ ~blk[i].a.isVar

\* The callee of I returns a tracked value.
ReturnsTracked(I) ==
  I.callee.retTy # NoValue /\ isTrackedType(I.callee.retTy, m_params.track_ptr)

\* The call statement st, at position k of blk, is the one of the call I.
CallSignature(blk, k, I) ==
  LET st == blk[k]
      actuals == TrackedActuals(I)
      nret == IF ReturnsTracked(I) THEN 1 ELSE 0
  IN  /\ st.callee = I.callee.name
      /\ Len(st.inputs) = Len(actuals) + Len(RegionInputs(I))
      /\ \A i \in 1 .. Len(actuals) : IsActual(blk, k, actuals[i], st.inputs[i])
      /\ SubSeq(NamesOf(st.inputs), Len(actuals) + 1, Len(st.inputs))
           = RegionInputs(I)
      /\ Len(st.outputs) = nret + Len(RegionOutputs(I))
      /\ nret = 1 =>
           IF DoesCallSiteReturn(I, m_params)
           THEN st.outputs[1] = MkVar(I.res.name, VarType(I.res))
           ELSE /\ st.outputs[1].name \in FreshNames
                /\ st.outputs[1].type = VarType(I.callee.retTy)
      /\ SubSeq(NamesOf(st.outputs), nret + 1, Len(st.outputs))
           = RegionOutputs(I)

\* The calls of the function, among those of kind sel (direct or not), that
\* get a call statement: those of a defined callee without variable
\* arguments, in an interprocedural translation.
CallsToTranslate(sel) ==
  {I \in SeqSet(m_func.blocks[1].insts) :
     /\ I.op = "call"
     /\ I.direct \in sel
     /\ m_params.interprocedural
     /\ ~I.callee.isDeclaration
     /\ ~I.callee.isVarArg}

CallStatements ==
  {k \in 1 .. Len(Cfg.blocks[Cfg.entry]) : Cfg.blocks[Cfg.entry][k].op = "callsite"}

\* C19: the call statement of a call to a defined, non-vararg callee in
\* interprocedural mode has as inputs the tracked actual parameters, each a
\* variable, then the read-only regions, then the modified regions, and as
\* outputs the return variable (a fresh one when the callee returns a
\* tracked value and the call site has none), then the modified regions,
\* then the new regions, a region both modified and new being an output
\* only.
C19_CallSignature ==
  Built =>
    \A I \in CallsToTranslate(BOOLEAN) :
       /\ CallStatements # {}
       /\ \A k \in CallStatements : CallSignature(Cfg.blocks[Cfg.entry], k, I)

\* What does hold: the same for the calls whose called value is the callee
\* itself.
CallSignatureOfDirect ==
  Built =>
    \A I \in CallsToTranslate({TRUE}) :
       /\ CallStatements # {}
       /\ \A k \in CallStatements : CallSignature(Cfg.blocks[Cfg.entry], k, I)

(***************************************************************************)
(* Allocation sites and the initialization of arrays: functions of two     *)
(* blocks whose instructions allocate, fill, initialize and store.         *)
(***************************************************************************)
\* An alloca of the type ty into the region.
MkAlloca(res, ty, region) ==
  [op |-> "alloca", opcode |-> "", res |-> res, op0 |-> NoValue,
   op1 |-> NoValue, ty |-> ty, region |-> region]

\* A call of an allocation function (isAllocationFn).
MkAllocFn(res) ==
  [op |-> "allocfn", opcode |-> "", res |-> res, op0 |-> NoValue,
   op1 |-> NoValue]

\* A memset of len bytes of val at dst.
MkMemSet(dst, val, len, region) ==
  [op |-> "memset", opcode |-> "", res |-> NoValue, op0 |-> dst, op1 |-> val,
   len |-> len, region |-> region]

\* verifier.zero_initializer(v) (k is NoValue) or
\* verifier.int_initializer(v, k); ty is the type v points to.
MkInitializer(v, k, ty, region) ==
  [op |-> "initializer", opcode |-> "", res |-> NoValue, op0 |-> v, op1 |-> k,
   ty |-> ty, region |-> region,
   callee |-> MkCallee(IF k = NoValue THEN "verifier.zero_initializer"
                       ELSE "verifier.int_initializer", NoValue, TRUE, FALSE),
   direct |-> TRUE, args |-> IF k = NoValue THEN <<v>> ELSE <<v, k>>,
   onlyreads |-> <<>>, mods |-> <<>>, news |-> <<>>]

\* A type: its kind ("int", "bool", "pointer", "array", "vector",
\* "int_array", "bool_array", "struct"), the width of an integer, the number
\* of elements and the storage size of an element.
MkType(kind, w, n, elem_size) ==
  [kind |-> kind, w |-> w, n |-> n, elem_size |-> elem_size]

\* The region of the global g and of the allocas a and b; the region of the
\* alloca c.
ARegion(singleton) == MkRegion(1, "INT_REGION", MaxWidth, singleton)

CRegion == MkRegion(2, "INT_REGION", MaxWidth, FALSE)

AllocInsts(G) ==
  { MkAlloca(PtrVar("a"), MkType("array", 0, 2, 4), G),
    MkAlloca(PtrVar("b"), MkType("pointer", 0, 0, 4), G),
    MkAlloca(PtrVar("c"), MkType("array", 0, 2, 0), CRegion),
    MkAlloca(PtrVar("d"), MkType("struct", 0, 0, 0), G),
    MkAllocFn(PtrVar("m")),
    MkMemSet(PtrVar("g"), ConstInt(MaxWidth, 0), ConstInt(MaxWidth, 4), G),
    MkMemSet(PtrVar("c"), IntVar("x"), IntVar("n"), CRegion),
    MkInitializer(PtrVar("g"), NoValue, MkType("int", 16, 0, 0), G),
    MkInitializer(PtrVar("g"), ConstInt(MaxWidth, 1),
                  MkType("int_array", 0, 2, 2), G),
    MkStore(IntVar("x"), PtrVar("g"), G),
    MkStore(IntVar("x"), PtrVar("c"), CRegion) }

\* The instructions of the entry block and of the block it branches to:
\* up to three different instructions, split between the two blocks.
AllocBodies(G) ==
  UNION {UNION {
    { <<<<I>>, <<>>>>, <<<<>>, <<I>>>>, <<<<I>>, <<J>>>>, <<<<I, J>>, <<>>>>,
      <<<<>>, <<I, J>>>> }
    \cup {<<<<I, J>>, <<K>>>> : K \in AllocInsts(G) \ {I, J}}
    \cup {<<<<I>>, <<J, K>>>> : K \in AllocInsts(G) \ {I, J}}
      : J \in AllocInsts(G) \ {I}} : I \in AllocInsts(G)}

AllocFn(name, body) ==
  MkFunction(name, <<IntVar("x"), IntVar("n")>>, NoValue, FALSE,
             <<MkBlock("entry", <<>>, body[1], Br("next")),
               MkBlock("next", <<>>, body[2], Ret(NoValue))>>)

AllocFunctions ==
  UNION {{AllocFn("alloc", body) : body \in AllocBodies(ARegion(singleton))} :
           singleton \in BOOLEAN}

AllocParams ==
  {MkInitParams(ls, ag) : ls \in BOOLEAN, ag \in BOOLEAN}
  \cup {MkArrParams(FALSE, FALSE, TRUE, FALSE)}

InitAlloc ==
  /\ m_params \in AllocParams
  /\ m_func \in AllocFunctions
  /\ m_builder = NewBuilder(m_func)
  /\ vfac_n = 0
  /\ bld_calls = 0
  /\ bld_rets = {}
  /\ IdleLit
  /\ IdleCmp
  /\ IdlePhiBlock
  /\ IdleMan

SpecAlloc == InitAlloc /\ [][NextBuild]_vars

\* The statements of the graph with the operator op, as <<label, index>>.
StmtsWithOp(op) ==
  UNION {{<<l, k>> : k \in {j \in 1 .. Len(Cfg.blocks[l]) :
                              Cfg.blocks[l][j].op = op}} :
           l \in DOMAIN Cfg.blocks}

StmtAt(pos) == Cfg.blocks[pos[1]][pos[2]]

\* C21: no two pointer-new-object statements of one function's graph, in
\* the same or in different blocks, carry the same object identifier.
C21_DistinctObjectIds ==
  Built =>
    \A p \in StmtsWithOp("ptr_new_object") :
    \A q \in StmtsWithOp("ptr_new_object") :
       p # q => StmtAt(p).k # StmtAt(q).k

\* What holds instead: the object identifiers are distinct, and increase,
\* within each block.
ObjectIdsIncreaseInBlock ==
  Built =>
    \A p \in StmtsWithOp("ptr_new_object") :
    \A q \in StmtsWithOp("ptr_new_object") :
       (p[1] = q[1] /\ p[2] < q[2]) => StmtAt(p).k < StmtAt(q).k

\* Two allocation sites of one block are numbered 0 and 1.
TwoObjectsInBlock ==
  /\ Built
  /\ \E p \in StmtsWithOp("ptr_new_object") :
     \E q \in StmtsWithOp("ptr_new_object") :
        p[1] = q[1] /\ StmtAt(p).k = 0 /\ StmtAt(q).k = 1

\* C22: the graph of a function holds at most one array-init statement per
\* memory region, whatever fills, initializers, allocations and stores touch
\* the region, in whatever order and blocks.
C22_OneInitPerRegion ==
  Built =>
    \A p \in StmtsWithOp("array_init") :
    \A q \in StmtsWithOp("array_init") :
       StmtAt(p).lhs = StmtAt(q).lhs => p = q

\* C22: a region that a store has recorded as initialized gets no
\* array-init in a later statement of the block or in a later block.
C22_NoInitAfterStore ==
  Built =>
    \A p \in StmtsWithOp("array_store") :
    \A q \in StmtsWithOp("array_init") :
       StmtAt(p).lhs = StmtAt(q).lhs =>
         ~ \/ (p[1] = q[1] /\ p[2] < q[2])
           \/ (p[1] = NodeLabel("entry") /\ q[1] = NodeLabel("next"))

\* C22: both facts.
C22_InitOnce == C22_OneInitPerRegion /\ C22_NoInitAfterStore

\* Two instructions of different blocks initialize the same region and the
\* graph holds the array-init of the first only.
C22_Witness ==
  /\ Built
  /\ Len(m_func.blocks[1].insts) > 0
  /\ Len(m_func.blocks[2].insts) > 0
  /\ m_func.blocks[1].insts[1].op \in {"memset", "initializer", "alloca"}
  /\ m_func.blocks[2].insts[1].op \in {"memset", "initializer", "alloca"}
  /\ m_func.blocks[1].insts[1].region = m_func.blocks[2].insts[1].region
  /\ \E p \in StmtsWithOp("array_init") :
        /\ p[1] = NodeLabel("entry")
        /\ StmtAt(p).lhs = RegionName(m_func.blocks[1].insts[1].region.id)
  /\ StmtsWithOp("array_init") \subseteq {<<NodeLabel("entry"), k>> : k \in 1 .. 4}

(***************************************************************************)
(* Binary operators and selects: functions of one block with one           *)
(* instruction that defines r.                                             *)
(***************************************************************************)
\* Integer operands: two variables, two constants and a constant
\* expression, which has no literal.
OpInts ==
  { IntVar("x"), IntVar("y"), ConstInt(MaxWidth, 1), ConstInt(MaxWidth, 2),
    MkValue("cexpr", "int", MaxWidth, 0, "ce") }

OpBools == {BoolVar("b1"), BoolVar("b2"), ConstInt(1, 1), ConstInt(1, 0)}

LogicOpcodes == {"And", "Or", "Xor"}

\* FAdd stands for the opcodes of visitBinaryOperator's default case.
BinaryInsts ==
  {MkInst("binop", oc, IntVar("r"), a, b) :
     oc \in ArithOpcodes \cup LogicOpcodes \cup {"FAdd"},
     a \in OpInts, b \in OpInts}
  \cup {MkInst("binop", oc, BoolVar("r"), a, b) :
          oc \in LogicOpcodes, a \in OpBools, b \in OpBools}

\* The conditions of a select: a boolean variable that no comparison
\* defines, one that a comparison of integers or of pointers defines, and
\* the two constants.
SelectConds ==
  { <<BoolVar("c"), NoCmp>>,
    <<BoolVar("c"), MkCmp("ICMP_SLT", IntVar("x"), IntVar("y"))>>,
    <<BoolVar("c"), MkCmp("ICMP_EQ", PtrVar("p"), PtrVar("q"))>>,
    <<ConstInt(1, 1), NoCmp>>,
    <<ConstInt(1, 0), NoCmp>> }

SelectInsts ==
  {MkSelect(BoolVar("r"), cd[1], cd[2], a, b) :
     cd \in SelectConds, a \in OpBools, b \in OpBools}
  \cup {MkSelect(IntVar("r"), cd[1], cd[2], a, b) :
          cd \in SelectConds, a \in OpInts \ {MkValue("cexpr", "int", MaxWidth, 0, "ce")},
          b \in OpInts \ {MkValue("cexpr", "int", MaxWidth, 0, "ce")}}
  \cup {MkSelect(PtrVar("r"), BoolVar("c"), NoCmp, PtrVar("p"), PtrVar("q"))}

OpFn(I) ==
  MkFunction("op", <<IntVar("x"), IntVar("y")>>, NoValue, FALSE,
             <<MkBlock("entry", <<>>, <<I>>, Ret(NoValue))>>)

OpFunctions == {OpFn(I) : I \in BinaryInsts \cup SelectInsts}

OpParams == {MkParams(FALSE, tp, FALSE, uh) : tp \in BOOLEAN, uh \in BOOLEAN}

InitOps ==
  /\ m_params \in OpParams
  /\ m_func \in OpFunctions
  /\ m_builder = NewBuilder(m_func)
  /\ vfac_n = 0
  /\ bld_calls = 0
  /\ bld_rets = {}
  /\ IdleLit
  /\ IdleCmp
  /\ IdlePhiBlock
  /\ IdleMan

SpecOps == InitOps /\ [][NextBuild]_vars

\* The instruction of the function and the statements of its block.
OpInst == m_func.blocks[1].insts[1]

OpStmts == Cfg.blocks[NodeLabel("entry")]

LitOf(v) == NewLit(v, m_params.enable_bignums)

BinaryStmtOps ==
  {BinOpName(oc) : oc \in ArithOpcodes \cup LogicOpcodes}

\* The statement at k assigns the literal of the constant v to a fresh
\* variable, which st reads as its operand lit.
Materialized(k, v, lit) ==
  /\ k >= 1
  /\ lit.isVar
  /\ lit.var \in FreshNames
  /\ OpStmts[k].op \in {"assign", "bool_assign"}
  /\ OpStmts[k].lhs = lit.var
  /\ OpStmts[k].a = LitOf(v)

\* The binary statement at k defines r from the operands of I: a variable
\* operand as itself, a constant left operand, and a constant right
\* operand together with a constant left one, from a temporary.
BinaryStmtAt(k, I) ==
  /\ OpStmts[k].op \in BinaryStmtOps
  /\ OpStmts[k].lhs = I.res.name
  /\ OpStmts[k].a.isVar
  /\ IF LitOf(I.op0).isVar
     THEN OpStmts[k].a = LitOf(I.op0) /\ OpStmts[k].b = LitOf(I.op1)
     ELSE IF LitOf(I.op1).isVar
     THEN Materialized(k - 1, I.op0, OpStmts[k].a) /\ OpStmts[k].b = LitOf(I.op1)
     ELSE /\ Materialized(k - 2, I.op0, OpStmts[k].a)
          /\ Materialized(k - 1, I.op1, OpStmts[k].b)
          /\ OpStmts[k].a # OpStmts[k].b

\* I is an integer binary instruction with the opcodes ops whose operands
\* both have integer literals.
IsIntBinary(I, ops) ==
  /\ I.op = "binop"
  /\ I.opcode \in ops
  /\ isInteger(I.res)
  /\ LitOf(I.op0).cls = "int"
  /\ LitOf(I.op1).cls = "int"

\* C23: a tracked integer arithmetic or bitwise instruction whose operands
\* have integer literals gets a binary statement that defines its
\* destination and whose left operand is a variable, constants being first
\* assigned to fresh temporaries; none is dropped without a statement.
C23_BinaryEmitted ==
  (Built /\ IsIntBinary(OpInst, ArithOpcodes \cup LogicOpcodes)) =>
     \E k \in 1 .. Len(OpStmts) : BinaryStmtAt(k, OpInst)

\* What holds instead: the same for the arithmetic opcodes alone.
ArithmeticEmitted ==
  (Built /\ IsIntBinary(OpInst, ArithOpcodes)) =>
     \E k \in 1 .. Len(OpStmts) : BinaryStmtAt(k, OpInst)

\* An arithmetic instruction of two constants is translated.
ArithmeticOfConstants ==
  /\ Built
  /\ IsIntBinary(OpInst, ArithOpcodes)
  /\ ~LitOf(OpInst.op0).isVar
  /\ ~LitOf(OpInst.op1).isVar
  /\ Len(OpStmts) = 3

\* C28: an integer And, Or or Xor whose operands have literals is lowered
\* to the bitwise statement of its own operator.
C28_SameBitwiseOperator ==
  (Built /\ IsIntBinary(OpInst, LogicOpcodes)) =>
     \A k \in 1 .. Len(OpStmts) :
        OpStmts[k].lhs = OpInst.res.name =>
          OpStmts[k].op = BinOpName(OpInst.opcode)

\* What holds instead: every one of the three is lowered to bitwise-and, or
\* to nothing.
BitwiseAlwaysAnd ==
  (Built /\ IsIntBinary(OpInst, LogicOpcodes)) =>
     \A k \in 1 .. Len(OpStmts) : OpStmts[k].op = "bitwise_and"

\* An Or of two variables is translated.
OrOfVariables ==
  /\ Built
  /\ IsIntBinary(OpInst, {"Or"})
  /\ LitOf(OpInst.op0).isVar
  /\ LitOf(OpInst.op1).isVar
  /\ Len(OpStmts) = 1

\* The arm lit of the statement at k stands for the value v of the select:
\* the variable of v, or a fresh temporary that an earlier statement
\* assigns the constant v.
ArmIs(k, v, lit) ==
  IF LitOf(v).isVar THEN lit = LitOf(v)
  ELSE \E j \in 1 .. (k - 1) : Materialized(j, v, lit)

IsBoolSelect(I) ==
  /\ I.op = "select"
  /\ isBool(I.res)
  /\ LitOf(I.op0).cls = "bool"
  /\ LitOf(I.op1).cls = "bool"

\* C24: a select of booleans on a variable condition gets a boolean select
\* statement on that condition whose true arm is the select's true value
\* and whose false arm is its false value, constants through fresh
\* temporaries; on a constant condition the destination is assigned the
\* live arm.
C24_SelectArms ==
  (Built /\ IsBoolSelect(OpInst)) =>
     IF OpInst.cond.kind = "cint"
     THEN OpStmts = <<bool_assign(OpInst.res.name,
                                  LitOf(IF OpInst.cond.bits = 1 THEN OpInst.op0
                                        ELSE OpInst.op1))>>
     ELSE \E k \in 1 .. Len(OpStmts) :
            /\ k = Len(OpStmts)
            /\ OpStmts[k].op = "bool_select"
            /\ OpStmts[k].lhs = OpInst.res.name
            /\ OpStmts[k].cond = LitOf(OpInst.cond)
            /\ ArmIs(k, OpInst.op0, OpStmts[k].a)
            /\ ArmIs(k, OpInst.op1, OpStmts[k].b)

\* What holds instead: the same when one arm at least is a constant, or on
\* a constant condition.
SelectArmsWithConstant ==
  (Built /\ IsBoolSelect(OpInst)
     /\ (LitOf(OpInst.op0).isVar /\ LitOf(OpInst.op1).isVar
           => OpInst.cond.kind = "cint")) =>
     IF OpInst.cond.kind = "cint"
     THEN OpStmts = <<bool_assign(OpInst.res.name,
                                  LitOf(IF OpInst.cond.bits = 1 THEN OpInst.op0
                                        ELSE OpInst.op1))>>
     ELSE \E k \in 1 .. Len(OpStmts) :
            /\ k = Len(OpStmts)
            /\ OpStmts[k].op = "bool_select"
            /\ OpStmts[k].lhs = OpInst.res.name
            /\ OpStmts[k].cond = LitOf(OpInst.cond)
            /\ ArmIs(k, OpInst.op0, OpStmts[k].a)
            /\ ArmIs(k, OpInst.op1, OpStmts[k].b)

\* With two variable arms both arms of the statement are the true value.
SelectOfVariablesTrueTwice ==
  (Built /\ IsBoolSelect(OpInst) /\ OpInst.cond.kind # "cint"
     /\ LitOf(OpInst.op0).isVar /\ LitOf(OpInst.op1).isVar) =>
     OpStmts = <<bool_select(OpInst.res.name, OpInst.cond.name,
                             OpInst.op0.name, OpInst.op0.name)>>

\* A select of two different boolean variables on a variable is translated.
SelectOfVariables ==
  /\ Built
  /\ IsBoolSelect(OpInst)
  /\ OpInst.cond.kind # "cint"
  /\ LitOf(OpInst.op0).isVar
  /\ LitOf(OpInst.op1).isVar
  /\ OpInst.op0 # OpInst.op1
  /\ Len(OpStmts) = 1

(***************************************************************************)
(* The guard of a comparison of pointers.                                  *)
(***************************************************************************)
IsNull(v) == v.kind = "null"

\* The entry's branch is on a comparison of two tracked pointers.
PtrGuarded ==
  /\ EntryBr.op = "condbr"
  /\ EntryBr.cond.kind = "var"
  /\ EntryBr.cmp # NoCmp
  /\ isPointer(EntryBr.cmp.op0, m_params.track_ptr)
  /\ isPointer(EntryBr.cmp.op1, m_params.track_ptr)

\* The statements of the blocks made for the two edges of the entry.
EdgeStmts == StmtsOf(TrueEdgeBlock) \cup StmtsOf(FalseEdgeBlock)

\* C25: a comparison of pointers that guards a branch gives an equality or
\* disequality with null when exactly one operand is the null constant, and
\* no guard statement at all when neither operand is.
C25_PtrGuardNullOnly ==
  (Built /\ PtrGuarded) =>
     /\ (IsNull(EntryBr.cmp.op0) # IsNull(EntryBr.cmp.op1)
           /\ EntryBr.cmp.pred \in {"ICMP_EQ", "ICMP_NE"}) =>
          \A l \in {TrueEdgeBlock, FalseEdgeBlock} :
             \E st \in StmtsOf(l) :
                st.op = "ptr_assume" /\ st.rel \in {"eq_null", "diseq_null"}
     /\ (~IsNull(EntryBr.cmp.op0) /\ ~IsNull(EntryBr.cmp.op1)) =>
          \A st \in EdgeStmts : st.op \notin GuardOps

\* What holds instead: two pointer variables compared for equality, on a
\* branch to two different blocks, give an equality on one edge and a
\* disequality on the other, of the two variables.
PtrGuardOfVariables ==
  (Built /\ PtrGuarded /\ EntryBr.cmp.pred \in {"ICMP_EQ", "ICMP_NE"}
     /\ EntryBr.succs[1] # EntryBr.succs[2]
     /\ ~IsNull(EntryBr.cmp.op0) /\ ~IsNull(EntryBr.cmp.op1)) =>
     /\ \E st \in EdgeStmts : st.op = "ptr_assume" /\ st.rel = "eq"
     /\ \E st \in EdgeStmts : st.op = "ptr_assume" /\ st.rel = "diseq"

\* The part of the claim about one null operand, which holds.
PtrGuardWithNull ==
  (Built /\ PtrGuarded /\ EntryBr.cmp.pred \in {"ICMP_EQ", "ICMP_NE"}
     /\ IsNull(EntryBr.cmp.op0) # IsNull(EntryBr.cmp.op1)) =>
     \A l \in {TrueEdgeBlock, FalseEdgeBlock} :
        \E st \in StmtsOf(l) :
           st.op = "ptr_assume" /\ st.rel \in {"eq_null", "diseq_null"}

\* Two different pointer variables guard a translated branch.
PtrGuardReached ==
  /\ Built
  /\ PtrGuarded
  /\ EntryBr.cmp.pred = "ICMP_EQ"
  /\ EntryBr.cmp.op0.kind = "var"
  /\ EntryBr.cmp.op1.kind = "var"
  /\ EntryBr.cmp.op0 # EntryBr.cmp.op1

(***************************************************************************)
(* The direction of the assignment that bridges a renamed argument.        *)
(***************************************************************************)
\* The declared input that stands for the returned argument.
RenamedInputs ==
  SeqSet(Cfg.decl.inputs) \ {a.name : a \in SeqSet(m_func.args)}

\* C26: when an argument is renamed because its variable is the return
\* variable, the entry block assigns the declared input (the renamed
\* variable) to the variable the body uses for the argument.
C26_BridgeIntoArgument ==
  (Built /\ ReturnsParam) =>
    \E st \in StmtsOf(Cfg.entry) :
      /\ st.op \in {"assign", "bool_assign", "ptr_assign"}
      /\ st.lhs = ReturnedName
      /\ st.a.isVar
      /\ st.a.var \in RenamedInputs

\* What holds instead: the entry block assigns the argument to the declared
\* input, and nothing assigns to the argument.
BridgeFromArgument ==
  (Built /\ ReturnsParam) =>
    /\ \E st \in StmtsOf(Cfg.entry) : IsBridge(st) /\ st.lhs \in RenamedInputs
    /\ \A l \in DOMAIN Cfg.blocks : ~AssignsTo(l, ReturnedName)

(***************************************************************************)
(* A function that calls itself: its declaration and the call statement    *)
(* of the call are in one graph.  The heap abstraction reports the same    *)
(* regions for the function and for the call site.                         *)
(***************************************************************************)
RecArgs == <<IntVar("x"), MkValue("var", "other", 0, 0, "f"), PtrVar("p")>>

\* The result of the call and the return type, and whether the function
\* ends in a return or in unreachable.
RecShapes ==
  { <<IntVar("r"), IntVar(""), "ret">>,
    <<IntVar("r"), IntVar(""), "unreachable">>,
    <<BoolVar("r"), BoolVar(""), "ret">>,
    <<PtrVar("r"), PtrVar(""), "ret">>,
    <<PtrVar("r"), PtrVar(""), "unreachable">>,
    <<NoValue, NoValue, "ret">>,
    <<NoValue, NoValue, "unreachable">> }

RecFn(name, sh, rs) ==
  [name |-> name, args |-> RecArgs, retTy |-> sh[2], isVarArg |-> FALSE,
   blocks |-> <<MkBlock("entry", <<>>,
                        <<MkCall(sh[1], MkCallee(name, sh[2], FALSE, FALSE),
                                 TRUE, RecArgs, rs.onlyreads, rs.mods, rs.news)>>,
                        IF sh[3] = "ret" THEN Ret(sh[1]) ELSE Unreachable)>>,
   onlyreads |-> rs.onlyreads, mods |-> rs.mods, news |-> rs.news]

RecFunctions ==
  UNION {{RecFn(name, sh, rs) :
            name \in {"rec", "main"}, sh \in RecShapes, rs \in CallRegions(G)} :
           G \in GlobalRegions}

RecParams ==
  {MkArrParams(FALSE, TRUE, uh, ls) : uh \in BOOLEAN, ls \in BOOLEAN}
  \cup {MkParams(FALSE, tp, TRUE, FALSE) : tp \in BOOLEAN}

InitRec ==
  /\ m_params \in RecParams
  /\ m_func \in RecFunctions
  /\ m_builder = NewBuilder(m_func)
  /\ vfac_n = 0
  /\ bld_calls = 0
  /\ bld_rets = {}
  /\ IdleLit
  /\ IdleCmp
  /\ IdlePhiBlock
  /\ IdleMan

SpecRec == InitRec /\ [][NextBuild]_vars

\* The type of the variable n of the declaration: the type of the array
\* parameter, of the argument or of the return value of that name.
DeclVarType(n) ==
  IF \E v \in Cfg.decl.array_params : v.name = n
  THEN (CHOOSE v \in Cfg.decl.array_params : v.name = n).type
  ELSE IF \E a \in SeqSet(m_func.args) : a.name = n
  THEN VarType(CHOOSE a \in SeqSet(m_func.args) : a.name = n)
  ELSE VarType(m_func.retTy)

DeclTypes(names) == [i \in 1 .. Len(names) |-> DeclVarType(names[i])]

TypesOf(vs) == [i \in 1 .. Len(vs) |-> vs[i].type]

\* The call statements of the calls of the function to itself.
SelfCalls ==
  {st \in UNION {StmtsOf(l) : l \in DOMAIN Cfg.blocks} :
     st.op = "callsite" /\ st.callee = m_func.name}

\* C27: in interprocedural mode the call statement of a direct call to a
\* defined function without variable arguments has as many inputs and
\* outputs, of the same types in the same order, as the declaration of the
\* function, when the call site and the function have the same regions;
\* also for main and for a function without a return instruction.
C27_CallMatchesDecl ==
  (Built /\ Cfg.decl.set) =>
    \A st \in SelfCalls :
       /\ TypesOf(st.inputs) = DeclTypes(Cfg.decl.inputs)
       /\ TypesOf(st.outputs) = DeclTypes(Cfg.decl.outputs)

\* What holds instead: the same for every function that is not named main,
\* and for main below the track level ARR.
CallMatchesDeclButMain ==
  (Built /\ Cfg.decl.set /\ (m_func.name # "main" \/ ~m_params.track_arr)) =>
    \A st \in SelfCalls :
       /\ TypesOf(st.inputs) = DeclTypes(Cfg.decl.inputs)
       /\ TypesOf(st.outputs) = DeclTypes(Cfg.decl.outputs)

\* A function that is not main, with a tracked return type and no return
\* instruction, calls itself with regions of every kind.
CallMatchesDeclReached ==
  /\ Built
  /\ Cfg.decl.set
  /\ m_func.name = "rec"
  /\ m_func.blocks[1].term.op = "unreachable"
  /\ m_func.retTy # NoValue
  /\ SelfCalls # {}
  /\ \E st \in SelfCalls : Len(st.inputs) >= 4 /\ Len(st.outputs) >= 3

\* The declaration of main has no array parameter while a call of main has
\* those of its regions.
MainWithoutArrays ==
  (Built /\ Cfg.decl.set /\ m_func.name = "main") =>
     Cfg.decl.array_params = {}

(***************************************************************************)
(* How often the PHI assignments of an edge are made on the way from the   *)
(* predecessor to the destination.                                         *)
(***************************************************************************)
\* The number of assignments in the block l of the graph for the PHI nodes
\* of dst and the edge from pred.
PhiCount(l, pred, dst) ==
  Cardinality(
    {i \in 1 .. Len(Cfg.blocks[l]) :
       \E j \in 1 .. Len(BlockOf(m_func, dst).phis) :
          /\ Cfg.blocks[l][i].op = "assign"
          /\ Cfg.blocks[l][i].lhs = BlockOf(m_func, dst).phis[j].phi.name
          /\ Cfg.blocks[l][i].a
               = IntCst(SignedVal(MaxWidth,
                                  BlockOf(m_func, dst).phis[j].incs[pred].bits))})

\* The numbers of assignments for the edge on the paths of the graph from
\* the block of pred to the block of dst: along the direct edge, and through
\* every block made for the edge.
PhiCountsOnPaths(pred, dst) ==
  {PhiCount(NodeLabel(pred), pred, dst) :
     l \in {x \in {NodeLabel(dst)} : <<NodeLabel(pred), x>> \in Cfg.edges}}
  \cup
  {PhiCount(NodeLabel(pred), pred, dst) + PhiCount(l, pred, dst) :
     l \in {x \in Synthesized : /\ <<NodeLabel(pred), x>> \in Cfg.edges
                                /\ <<x, NodeLabel(dst)>> \in Cfg.edges}}

\* How often dst occurs in the sequence s.
Occurrences(s, dst) == Cardinality({i \in 1 .. Len(s) : s[i] = dst})

\* C29: for every edge (pred, dst) of the function the PHI assignments of
\* dst are made exactly once on every path from the body of pred to dst, also
\* when dst occurs more than once among the successors of pred (two cases of
\* a switch with one target, the default destination of a switch, a
\* conditional branch with one block as both successors).
C29_PhiOnce ==
  Built =>
    \A e \in PhiEdges({"br", "condbr", "switch"}) :
       /\ PhiCountsOnPaths(e[1], e[2]) # {}
       /\ PhiCountsOnPaths(e[1], e[2]) \subseteq {1}

\* What does hold: once on every path for the edges out of a conditional or
\* unconditional br, also for a conditional branch whose successors are one
\* block.
PhiOnceOfBr ==
  Built =>
    \A e \in PhiEdges({"br", "condbr"}) :
       /\ PhiCountsOnPaths(e[1], e[2]) # {}
       /\ PhiCountsOnPaths(e[1], e[2]) \subseteq {1}

\* For a switch the assignments of a destination are made as often as the
\* destination occurs among the successors and once more for the default
\* destination, all in the block of the switch.
PhiOfSwitchRepeated ==
  Built =>
    \A e \in PhiEdges({"switch"}) :
       PhiCountsOnPaths(e[1], e[2])
         = {Occurrences(Append(succs(BlockOf(m_func, e[1])),
                               BlockOf(m_func, e[1]).term.succs[1]), e[2])}

\* A conditional branch from the entry to one block with a PHI node as both
\* successors, and a switch with a PHI node in its default destination, have
\* been translated.
PhiOnceOfBrReached ==
  /\ Built
  /\ BlockOf(m_func, "entry").term.op = "condbr"
  /\ succs(BlockOf(m_func, "entry")) = <<"b1", "b1">>
  /\ BlockOf(m_func, "b1").phis # <<>>
  /\ Cardinality({l \in Synthesized : <<"entry", l>> \in Cfg.edges}) = 2

PhiOfSwitchReached ==
  /\ Built
  /\ BlockOf(m_func, "entry").term.op = "switch"
  /\ succs(BlockOf(m_func, "entry")) = <<"b2", "b1", "b1">>
  /\ BlockOf(m_func, "b1").phis # <<>>
  /\ PhiCount("entry", "entry", "b1") = 2
  /\ PhiCount("entry", "entry", "b2") = 2

(***************************************************************************)
(* The edges from the sink blocks to the exit.                             *)
(***************************************************************************)
\* The exit of the built graph is the block of a return instruction.
ExitIsReturn == Cfg.has_exit /\ Cfg.exit \in {NodeLabel(n) : n \in RetBlocks}

\* The blocks of the function with an unreachable instruction that are not
\* the exit of the graph.
UnreachableSinks == {NodeLabel(n) : n \in UnreachableBlocks} \ {Cfg.exit}

\* The edges that the translation of the terminators makes: from a block
\* that ends in br or switch to its successors, and from a block that ends
\* in a conditional br through one guard block to a successor.
IsTerminatorEdge(e) ==
  \/ /\ e[1] \in {NodeLabel(n) : n \in BlockNames(m_func)}
     /\ \E n \in BlockNames(m_func) :
           /\ e[1] = NodeLabel(n)
           /\ \/ /\ BlockOf(m_func, n).term.op \in {"br", "switch"}
                 /\ e[2] \in {NodeLabel(d) : d \in SeqSet(succs(BlockOf(m_func, n)))}
              \/ /\ BlockOf(m_func, n).term.op = "condbr"
                 /\ e[2] \in Synthesized
  \/ /\ e[1] \in Synthesized
     /\ \E n \in BlockNames(m_func) :
           /\ BlockOf(m_func, n).term.op = "condbr"
           /\ <<NodeLabel(n), e[1]>> \in Cfg.edges
           /\ e[2] \in {NodeLabel(d) : d \in SeqSet(succs(BlockOf(m_func, n)))}

FallbackExitReached ==
  /\ Built
  /\ Cfg.has_exit
  /\ ~ExitIsReturn
  /\ UnreachableSinks # {}
  /\ \A l \in UnreachableSinks : NextBlocks(Cfg, l) = {}
====
